---------------------------- MODULE Spec2Model ----------------------------
(***************************************************************************)
(* Polyomino calendar puzzle: the piece catalog (pieces.js), the board     *)
(* (grid.js), the placement engine and win evaluator (gameLogic.js) and    *)
(* the input handlers that drive them (renderer.js) and the saved game     *)
(* (storage.js).                                                           *)
(*                                                                         *)
(* Conventions.  A piece coordinate [x, y] is the tuple <<x, y>>; a board  *)
(* position [row, col] is the tuple <<row, col>>.  JavaScript arrays are   *)
(* sequences (index i of the array is index i + 1 of the sequence).  A     *)
(* JavaScript Map is the sequence of its entries in insertion order.  The  *)
(* boolean return value is the string "true" or "false", a void return is  *)
(* "undefined" and a thrown TypeError is the return value "TypeError".     *)
(* null and undefined have one stand-in per type of value they replace.    *)
(* An operator that uses a computed value several times binds it first, as *)
(* the argument of a local function over Any (or with \E in an action), as *)
(* the JavaScript binds it to a const: the value is then computed once.    *)
(***************************************************************************)
EXTENDS Integers, Sequences, FiniteSets, TLC

VARIABLES
    placedPieces,      \* gameModel.placedPieces: Map name -> {row, col, orientationIndex}
    occupiedSquares,   \* gameModel.occupiedSquares: Set of "row,col" keys
    currentDate,       \* the date of the session, [monthIndex, dayNumber] (getCurrentDate at startup)
    gameState,         \* the UI fields of gameState: selectedPiece, selectedOrientation, mousePos
    handlers,          \* the closure variables of the canvas handlers (touchMoved, preview, timer ...)
    localStorage,      \* the item of localStorage under STORAGE_GAME_STATE (or no item)
    timerTouch,        \* history: the touch whose touchstart armed the pending long-press timer
    calls              \* the calls made by the operation (or handler run) that produced this state

vars == <<placedPieces, occupiedSquares, currentDate, gameState, handlers, localStorage, timerTouch, calls>>

\* return values
undefined == "undefined"

TypeError == "TypeError"

Bool(b) == IF b THEN "true" ELSE "false"

\* null where a piece name is expected (gameState.selectedPiece = null)
null == "null"

\* null where a grid square is expected (getSquare)
nullSquare == [type |-> "null"]

\* null where a position [row, col] is expected (findMonthPosition, findDayPosition)
nullPosition == <<>>

\* undefined where a piece object is expected (pieces[name] of an unknown name)
undefinedPiece == [name |-> "undefined"]

(***************************************************************************)
(* Small helpers for JavaScript arrays.                                    *)
(***************************************************************************)
Range(s) ==
    LET elements[q \in Any] == {q[i] : i \in 1..Len(q)}
    IN  elements[s]

MinOf(S) ==
    LET least[T \in Any] == CHOOSE m \in T : \A n \in T : m <= n
    IN  least[S]

MaxOf(S) ==
    LET greatest[T \in Any] == CHOOSE m \in T : \A n \in T : m >= n
    IN  greatest[S]

\* array[i] of JavaScript is an element exactly for i in 0..length-1, else undefined
HasIndex(s, i) == i \in 0..(Len(s) - 1)

At(s, i) == s[i + 1]

(***************************************************************************)
(* pieces.js                                                               *)
(***************************************************************************)

\* the comparator (a, b) => a[0] - b[0] || a[1] - b[1]: negative iff a sorts before b
coordBefore(a, b) == IF a[1] - b[1] # 0 THEN a[1] - b[1] < 0 ELSE a[2] - b[2] < 0

\* coords.sort(comparator): the element at index k of the sorted array is the one
\* that k - 1 elements sort before (the coordinates of a piece are distinct)
sortCoords(coords) ==
    LET sorted[cs \in Any] ==
            [k \in 1..Len(cs) |->
                CHOOSE e \in Range(cs) : Cardinality({f \in Range(cs) : coordBefore(f, e)}) = k - 1]
    IN  sorted[coords]

\* MUTANT of rotateCoords: subtracts minX from both coordinates
rotateCoordsShiftByMinX(coords) ==
    LET normalized[rotated \in Any] ==
            LET minX == MinOf({c[1] : c \in Range(rotated)})
            IN  [i \in 1..Len(rotated) |-> <<rotated[i][1] - minX, rotated[i][2] - minX>>]
        rotate[cs \in Any] == normalized[[i \in 1..Len(cs) |-> <<cs[i][2], 0 - cs[i][1]>>]]
    IN  rotate[coords]

rotateCoords(coords) ==
    LET normalized[rotated \in Any] ==
            LET minX == MinOf({c[1] : c \in Range(rotated)})
                minY == MinOf({c[2] : c \in Range(rotated)})
            IN  [i \in 1..Len(rotated) |-> <<rotated[i][1] - minX, rotated[i][2] - minY>>]
        rotate[cs \in Any] == normalized[[i \in 1..Len(cs) |-> <<cs[i][2], 0 - cs[i][1]>>]]
    IN  rotate[coords]

\* 2 * center = minX + maxX exactly, so 2 * center - x is an integer
flipCoords(coords) ==
    LET normalized[flipped \in Any] ==
            LET minFlippedX == MinOf({c[1] : c \in Range(flipped)})
            IN  [i \in 1..Len(flipped) |-> <<flipped[i][1] - minFlippedX, flipped[i][2]>>]
        flip[cs \in Any] ==
            LET minX == MinOf({c[1] : c \in Range(cs)})
                maxX == MaxOf({c[1] : c \in Range(cs)})
            IN  normalized[[i \in 1..Len(cs) |-> <<(minX + maxX) - cs[i][1], cs[i][2]>>]]
    IN  flip[coords]

\* the body of one "for (let r = 0; r < 4; r++)" pass of generateOrientations: st is
\* [current, seen, orientations]; the key JSON.stringify(sorted) is the sorted array
rotationStep(st) ==
    LET step[s \in Any] ==
            LET keyed[sorted \in Any] ==
                    [current |-> rotateCoords(sorted),
                     seen |-> s.seen \cup {sorted},
                     orientations |-> IF sorted \notin s.seen
                                      THEN Append(s.orientations, sorted)
                                      ELSE s.orientations]
            IN  keyed[sortCoords(s.current)]
    IN  step[st]

\* the whole loop: four passes
tryRotations(st) == rotationStep(rotationStep(rotationStep(rotationStep(st))))

\* MUTANT of generateOrientations: pushes every rotation, seen or not
generateOrientationsWithoutSeen(baseCoords) ==
    LET four[start \in Any] ==
            <<sortCoords(start),
              sortCoords(rotateCoords(start)),
              sortCoords(rotateCoords(rotateCoords(start))),
              sortCoords(rotateCoords(rotateCoords(rotateCoords(start))))>>
    IN  four[baseCoords] \o four[flipCoords(sortCoords(baseCoords))]

\* current.sort sorts baseCoords in place, so flipCoords gets the sorted base
generateOrientations(baseCoords) ==
    LET flippedPass[plain \in Any] ==
            tryRotations([current |-> flipCoords(sortCoords(baseCoords)),
                          seen |-> plain.seen,
                          orientations |-> plain.orientations]).orientations
    IN  flippedPass[tryRotations([current |-> baseCoords, seen |-> {}, orientations |-> <<>>])]

\* Object.keys(pieces), in definition order
PieceNames == <<"L", "N", "P", "U", "V", "Y", "Z", "RECTANGLE">>

baseShape ==
    [L |-> <<<<0,0>>, <<1,0>>, <<2,0>>, <<3,0>>, <<0,1>>>>,
     N |-> <<<<0,0>>, <<1,0>>, <<1,1>>, <<2,1>>, <<3,1>>>>,
     P |-> <<<<0,0>>, <<1,0>>, <<0,1>>, <<1,1>>, <<0,2>>>>,
     U |-> <<<<0,0>>, <<2,0>>, <<0,1>>, <<1,1>>, <<2,1>>>>,
     V |-> <<<<0,0>>, <<1,0>>, <<2,0>>, <<0,1>>, <<0,2>>>>,
     Y |-> <<<<0,0>>, <<1,0>>, <<2,0>>, <<3,0>>, <<1,1>>>>,
     Z |-> <<<<0,0>>, <<0,1>>, <<1,1>>, <<2,1>>, <<2,2>>>>,
     RECTANGLE |-> <<<<0,0>>, <<1,0>>, <<2,0>>, <<0,1>>, <<1,1>>, <<2,1>>>>]

pieces == [n \in Range(PieceNames) |-> [name |-> n, orientations |-> generateOrientations(baseShape[n])]]

getPiece(name) == IF name \in Range(PieceNames) THEN pieces[name] ELSE undefinedPiece

\* the remainder operator % of JavaScript: the result has the sign of the dividend
jsRem(a, b) == IF a >= 0 THEN a % b ELSE 0 - ((0 - a) % b)

\* null where an orientation (an array of coordinates) is expected
nullCoords == <<>>

\* MUTANT of getPieceOrientation: one remainder, so a negative index names no entry
getPieceOrientationSingleRem(name, orientationIndex) ==
    IF name \notin Range(PieceNames) THEN nullCoords
    ELSE LET entry[orientations \in Any] ==
                 LET wrapped[index \in Any] ==
                         IF HasIndex(orientations, index) THEN At(orientations, index) ELSE nullCoords
                 IN  wrapped[jsRem(orientationIndex, Len(orientations))]
         IN  entry[getPiece(name).orientations]

getPieceOrientation(name, orientationIndex) ==
    IF name \notin Range(PieceNames) THEN nullCoords
    ELSE LET entry[orientations \in Any] ==
                 LET wrapped[length \in Any] ==
                         At(orientations, jsRem(jsRem(orientationIndex, length) + length, length))
                 IN  wrapped[Len(orientations)]
         IN  entry[getPiece(name).orientations]

nextOrientation(name, currentIndex) ==
    IF name \notin Range(PieceNames) THEN 0
    ELSE jsRem(currentIndex + 1, Len(getPiece(name).orientations))

prevOrientation(name, currentIndex) ==
    IF name \notin Range(PieceNames) THEN 0
    ELSE LET previous[length \in Any] == jsRem(currentIndex - 1 + length, length)
         IN  previous[Len(getPiece(name).orientations)]

\* for an index the piece does not have, piece.orientations[currentIndex] is
\* undefined and flipCoords throws a TypeError at coords.map
findFlippedThrows(name, currentIndex) ==
    name \in Range(PieceNames) /\ ~HasIndex(getPiece(name).orientations, currentIndex)

\* MUTANT of findFlippedOrientation: the search never matches, the fallback answers
findFlippedOrientationAlwaysFallback(name, currentIndex) ==
    IF name \notin Range(PieceNames) THEN currentIndex
    ELSE IF findFlippedThrows(name, currentIndex) THEN TypeError
    ELSE currentIndex

\* MUTANT of findFlippedOrientation: looks for the rotated orientation, not the flipped one
findFlippedOrientationByRotation(name, currentIndex) ==
    IF name \notin Range(PieceNames) THEN currentIndex
    ELSE IF findFlippedThrows(name, currentIndex) THEN TypeError
    ELSE LET firstOf[hits \in Any] == IF hits = {} THEN currentIndex ELSE MinOf(hits)
             find[orientations \in Any] ==
                 LET matching[normalizedFlipped \in Any] ==
                         firstOf[{i \in 0..(Len(orientations) - 1) :
                                     sortCoords(At(orientations, i)) = normalizedFlipped}]
                 IN  matching[sortCoords(rotateCoords(At(orientations, currentIndex)))]
         IN  find[getPiece(name).orientations]

\* the first orientation equal to the flipped one, else the index
findFlippedOrientation(name, currentIndex) ==
    IF name \notin Range(PieceNames) THEN currentIndex
    ELSE IF findFlippedThrows(name, currentIndex) THEN TypeError
    ELSE LET firstOf[hits \in Any] == IF hits = {} THEN currentIndex ELSE MinOf(hits)
             find[orientations \in Any] ==
                 LET matching[normalizedFlipped \in Any] ==
                         firstOf[{i \in 0..(Len(orientations) - 1) :
                                     sortCoords(At(orientations, i)) = normalizedFlipped}]
                 IN  matching[sortCoords(flipCoords(At(orientations, currentIndex)))]
         IN  find[getPiece(name).orientations]

(***************************************************************************)
(* grid.js                                                                 *)
(***************************************************************************)
GRID_ROWS == 6

GRID_COLS == 8

months ==
    << <<0,1>>, <<0,2>>, <<0,3>>, <<0,4>>, <<0,5>>, <<0,6>>,
       <<1,1>>, <<1,2>>, <<1,3>>, <<1,4>>, <<1,5>>, <<1,6>> >>

\* the grid after the months.forEach and the four day loops; dayNumber runs on from 1
initializeGrid ==
    [pos \in (0..(GRID_ROWS - 1)) \X (0..(GRID_COLS - 1)) |->
        LET row == pos[1]
            col == pos[2]
        IN  IF row \in 2..4 /\ col < 8
            THEN [type |-> "day", dayNumber |-> 1 + (row - 2) * 8 + col]
            ELSE IF row = 5 /\ col < 7
            THEN [type |-> "day", dayNumber |-> 25 + col]
            ELSE IF \E i \in 1..Len(months) : months[i] = pos
            THEN [type |-> "month",
                  monthIndex |-> (CHOOSE i \in 1..Len(months) : months[i] = pos) - 1]
            ELSE [type |-> "empty"]]

\* [row, col, square] for every non-empty square, rows outer, columns inner
getAllSquares ==
    LET grid == initializeGrid
        scan == [i \in 1..(GRID_ROWS * GRID_COLS) |->
                    LET row == (i - 1) \div GRID_COLS
                        col == (i - 1) % GRID_COLS
                    IN  <<row, col, grid[<<row, col>>]>>]
    IN  SelectSeq(scan, LAMBDA t : t[3].type # "empty")

getSquare(row, col) ==
    IF row < 0 \/ row >= GRID_ROWS \/ col < 0 \/ col >= GRID_COLS
    THEN nullSquare
    ELSE LET square == initializeGrid[<<row, col>>]
         IN  IF square.type = "empty" THEN nullSquare ELSE square

\* MUTANT of isValidGridPosition: tests the bounds of the grid only
isValidGridPositionBoundsOnly(row, col) ==
    row >= 0 /\ row < GRID_ROWS /\ col >= 0 /\ col < GRID_COLS

isValidGridPosition(row, col) ==
    row >= 0 /\ row < GRID_ROWS /\ col >= 0 /\ col < GRID_COLS /\ getSquare(row, col) # nullSquare

pieceToGridCoords(pieceCoords, gridRow, gridCol) ==
    LET shifted[cs \in Any] == [i \in 1..Len(cs) |-> <<gridRow + cs[i][2], gridCol + cs[i][1]>>]
    IN  shifted[pieceCoords]

\* the template literal `${row},${col}`: one key per position
squareKey(row, col) == <<row, col>>

\* MUTANT of isValidPlacement: looks at the board only, not at the occupancy
isValidPlacementOnBoardOnly(pieceCoords, occupied) ==
    \A i \in 1..Len(pieceCoords) : isValidGridPosition(pieceCoords[i][1], pieceCoords[i][2])

\* the declaration takes two parameters; a third argument of a call is dropped
isValidPlacement(pieceCoords, occupied) ==
    \A i \in 1..Len(pieceCoords) :
        LET row == pieceCoords[i][1]
            col == pieceCoords[i][2]
        IN  IF ~isValidGridPosition(row, col) THEN FALSE
            ELSE IF squareKey(row, col) \in occupied THEN FALSE
            ELSE TRUE

findMonthPosition(monthIndex) ==
    LET squares == getAllSquares
        hits == SelectSeq(squares, LAMBDA s : s[3].type = "month" /\ s[3].monthIndex = monthIndex)
    IN  IF hits = <<>> THEN nullPosition ELSE <<hits[1][1], hits[1][2]>>

\* MUTANT of findDayPosition: counts the days from 0
findDayPositionFromZero(dayNumber) ==
    LET squares == getAllSquares
        hits == SelectSeq(squares, LAMBDA s : s[3].type = "day" /\ s[3].dayNumber = dayNumber + 1)
    IN  IF hits = <<>> THEN nullPosition ELSE <<hits[1][1], hits[1][2]>>

findDayPosition(dayNumber) ==
    LET squares == getAllSquares
        hits == SelectSeq(squares, LAMBDA s : s[3].type = "day" /\ s[3].dayNumber = dayNumber)
    IN  IF hits = <<>> THEN nullPosition ELSE <<hits[1][1], hits[1][2]>>

(***************************************************************************)
(* The Map gameModel.placedPieces: entries [key, value] in insertion order *)
(***************************************************************************)
mapHas(m, k) == \E i \in 1..Len(m) : m[i].key = k

mapGet(m, k) == m[CHOOSE i \in 1..Len(m) : m[i].key = k].value

\* Map.prototype.set: an existing key keeps its position, a new key goes last
mapSet(m, k, v) ==
    IF mapHas(m, k)
    THEN [i \in 1..Len(m) |-> IF m[i].key = k THEN [key |-> k, value |-> v] ELSE m[i]]
    ELSE Append(m, [key |-> k, value |-> v])

mapDelete(m, k) == SelectSeq(m, LAMBDA e : e.key # k)

(***************************************************************************)
(* gameLogic.js.  A game model is [placedPieces, occupiedSquares]; every   *)
(* operation returns the model it leaves behind and its return value.      *)
(***************************************************************************)
createGameModel == [placedPieces |-> <<>>, occupiedSquares |-> {}]

\* gridCoords.forEach(([r, c]) => occupiedSquares.add(`${r},${c}`))
addSquares(occupied, gridCoords) ==
    occupied \cup {squareKey(c[1], c[2]) : c \in Range(gridCoords)}

\* "piece.orientations[index]" then "coords.map": a TypeError when the piece is
\* undefined or when the index names no orientation
coordsThrow(pieceName, orientationIndex) ==
    LET throws[piece \in Any] ==
            \/ piece = undefinedPiece
            \/ ~HasIndex(piece.orientations, orientationIndex)
    IN  throws[getPiece(pieceName)]

\* placedPieces.forEach of rebuildOccupiedSquares from entry i on; a throw ends the loop
RECURSIVE rebuildLoop(_, _, _)
rebuildLoop(entries, i, occupied) ==
    IF i > Len(entries) THEN [occupiedSquares |-> occupied, ret |-> undefined]
    ELSE LET pieceName == entries[i].key
             placement == entries[i].value
         IN  IF coordsThrow(pieceName, placement.orientationIndex)
             THEN [occupiedSquares |-> occupied, ret |-> TypeError]
             ELSE LET coords == At(getPiece(pieceName).orientations, placement.orientationIndex)
                      gridCoords == pieceToGridCoords(coords, placement.row, placement.col)
                  IN  rebuildLoop(entries, i + 1, addSquares(occupied, gridCoords))

\* MUTANT of rebuildOccupiedSquares: adds the placements' squares without clearing first
rebuildOccupiedSquaresWithoutClear(gameModel) ==
    LET rebuilt[r \in Any] ==
            [placedPieces |-> gameModel.placedPieces,
             occupiedSquares |-> r.occupiedSquares,
             ret |-> r.ret]
    IN  rebuilt[rebuildLoop(gameModel.placedPieces, 1, gameModel.occupiedSquares)]

rebuildOccupiedSquares(gameModel) ==
    LET rebuilt[r \in Any] ==
            [placedPieces |-> gameModel.placedPieces,
             occupiedSquares |-> r.occupiedSquares,
             ret |-> r.ret]
    IN  rebuilt[rebuildLoop(gameModel.placedPieces, 1, {})]

\* MUTANT of placePiece: a gatekeeper that refuses a placement isValidPlacement rejects
placePieceIfValid(gameModel, pieceName, row, col, orientationIndex) ==
    LET placed[gridCoords \in Any] ==
            IF isValidPlacement(gridCoords, gameModel.occupiedSquares)
            THEN [placedPieces |-> mapSet(gameModel.placedPieces, pieceName,
                                          [row |-> row, col |-> col, orientationIndex |-> orientationIndex]),
                  occupiedSquares |-> addSquares(gameModel.occupiedSquares, gridCoords),
                  ret |-> "true"]
            ELSE [placedPieces |-> gameModel.placedPieces,
                  occupiedSquares |-> gameModel.occupiedSquares,
                  ret |-> "false"]
    IN  placed[pieceToGridCoords(At(getPiece(pieceName).orientations, orientationIndex), row, col)]

\* MUTANT of placePiece: records the placement and leaves the occupancy as it was
placePieceWithoutOccupancy(gameModel, pieceName, row, col, orientationIndex) ==
    [placedPieces |-> mapSet(gameModel.placedPieces, pieceName,
                             [row |-> row, col |-> col, orientationIndex |-> orientationIndex]),
     occupiedSquares |-> gameModel.occupiedSquares,
     ret |-> IF coordsThrow(pieceName, orientationIndex) THEN TypeError ELSE "true"]

placePiece(gameModel, pieceName, row, col, orientationIndex) ==
    LET recorded == mapSet(gameModel.placedPieces, pieceName,
                           [row |-> row, col |-> col, orientationIndex |-> orientationIndex])
    IN  IF coordsThrow(pieceName, orientationIndex)
        THEN [placedPieces |-> recorded,
              occupiedSquares |-> gameModel.occupiedSquares,
              ret |-> TypeError]
        ELSE LET coords == At(getPiece(pieceName).orientations, orientationIndex)
                 gridCoords == pieceToGridCoords(coords, row, col)
             IN  [placedPieces |-> recorded,
                  occupiedSquares |-> addSquares(gameModel.occupiedSquares, gridCoords),
                  ret |-> "true"]

\* MUTANT of removePiece: rebuilds the occupancy whether the piece was placed or not
removePieceAlwaysRebuild(gameModel, pieceName) ==
    LET removed[r \in Any] ==
            [placedPieces |-> r.placedPieces,
             occupiedSquares |-> r.occupiedSquares,
             ret |-> IF r.ret = TypeError THEN TypeError
                     ELSE Bool(mapHas(gameModel.placedPieces, pieceName))]
    IN  removed[rebuildOccupiedSquares(
                    [placedPieces |-> mapDelete(gameModel.placedPieces, pieceName),
                     occupiedSquares |-> gameModel.occupiedSquares])]

\* MUTANT of removePiece: subtracts the removed piece's squares instead of rebuilding
removePieceBySubtraction(gameModel, pieceName) ==
    IF ~mapHas(gameModel.placedPieces, pieceName)
    THEN [placedPieces |-> gameModel.placedPieces,
          occupiedSquares |-> gameModel.occupiedSquares,
          ret |-> "false"]
    ELSE LET v == mapGet(gameModel.placedPieces, pieceName)
             gone == addSquares({}, pieceToGridCoords(
                         At(getPiece(pieceName).orientations, v.orientationIndex), v.row, v.col))
         IN  [placedPieces |-> mapDelete(gameModel.placedPieces, pieceName),
              occupiedSquares |-> gameModel.occupiedSquares \ gone,
              ret |-> "true"]

\* MUTANT of removePiece: deletes the placement and forgets to rebuild the occupancy
removePieceWithoutRebuild(gameModel, pieceName) ==
    IF ~mapHas(gameModel.placedPieces, pieceName)
    THEN [placedPieces |-> gameModel.placedPieces,
          occupiedSquares |-> gameModel.occupiedSquares,
          ret |-> "false"]
    ELSE [placedPieces |-> mapDelete(gameModel.placedPieces, pieceName),
          occupiedSquares |-> gameModel.occupiedSquares,
          ret |-> "true"]

removePiece(gameModel, pieceName) ==
    IF ~mapHas(gameModel.placedPieces, pieceName)
    THEN [placedPieces |-> gameModel.placedPieces,
          occupiedSquares |-> gameModel.occupiedSquares,
          ret |-> "false"]
    ELSE LET removed[r \in Any] ==
                 [placedPieces |-> r.placedPieces,
                  occupiedSquares |-> r.occupiedSquares,
                  ret |-> IF r.ret = TypeError THEN TypeError ELSE "true"]
         IN  removed[rebuildOccupiedSquares(
                         [placedPieces |-> mapDelete(gameModel.placedPieces, pieceName),
                          occupiedSquares |-> gameModel.occupiedSquares])]

\* MUTANT of checkWinCondition: wants the day squares covered and not the months
checkWinConditionDaysOnly(gameModel, date) ==
    LET allSquares == getAllSquares
        kept == SelectSeq(allSquares, LAMBDA t : t[3].type = "day" /\ t[3].dayNumber # date.dayNumber)
    IN  \A t \in Range(kept) : squareKey(t[1], t[2]) \in gameModel.occupiedSquares

\* MUTANT of checkWinCondition: wants the date's squares covered as well
checkWinConditionWholeBoard(gameModel, date) ==
    LET allSquares == getAllSquares
    IN  \A i \in 1..Len(allSquares) :
            squareKey(allSquares[i][1], allSquares[i][2]) \in gameModel.occupiedSquares

\* the parameter currentDate, [monthIndex, dayNumber], is named date here
checkWinCondition(gameModel, date) ==
    LET allSquares == getAllSquares
        kept == SelectSeq(allSquares, LAMBDA t :
                    LET square == t[3]
                        isCurrent ==
                            \/ (square.type = "month" /\ square.monthIndex = date.monthIndex)
                            \/ (square.type = "day" /\ square.dayNumber = date.dayNumber)
                    IN  ~isCurrent)
        squaresToCover == {squareKey(t[1], t[2]) : t \in Range(kept)}
    IN  \A key \in squaresToCover : key \in gameModel.occupiedSquares

\* MUTANT of resetGameModel: clears the placements and forgets the occupancy
resetGameModelPlacementsOnly(gameModel) ==
    [placedPieces |-> <<>>, occupiedSquares |-> gameModel.occupiedSquares, ret |-> undefined]

\* placedPieces.clear() and occupiedSquares.clear(); gameModel.grid is not touched
\* (no function of gameLogic.js reads or writes it after createGameModel)
resetGameModel(gameModel) ==
    [placedPieces |-> <<>>, occupiedSquares |-> {}, ret |-> undefined]

(***************************************************************************)
(* storage.js.  A string built from numbers is the sequence of its         *)
(* characters.  The JSON text of the saved game is the tree of its values  *)
(* with every number written as the text JSON.stringify gives it; the keys *)
(* of occupiedSquares are strings already and the Set, which has no order  *)
(* in this model, gives the array of its elements.                         *)
(***************************************************************************)
Digits == <<"0", "1", "2", "3", "4", "5", "6", "7", "8", "9">>

\* String(n) of an integer, as a template literal and JSON.stringify write it
RECURSIVE naturalToString(_)
naturalToString(n) ==
    IF n < 10 THEN <<Digits[n + 1]>>
    ELSE naturalToString(n \div 10) \o <<Digits[(n % 10) + 1]>>

numberToString(n) == IF n < 0 THEN <<"-">> \o naturalToString(0 - n) ELSE naturalToString(n)

\* the number JSON.parse reads from the text of an integer
RECURSIVE parseNatural(_)
parseNatural(text) ==
    IF Len(text) = 0 THEN 0
    ELSE parseNatural(SubSeq(text, 1, Len(text) - 1)) * 10
         + (CHOOSE v \in 0..9 : Digits[v + 1] = text[Len(text)])

parseNumber(text) == IF text[1] = "-" THEN 0 - parseNatural(Tail(text)) ELSE parseNatural(text)

\* MUTANT of dateKey: the month and the day written without the "-" between them
dateKeyWithoutSeparator(date) == numberToString(date.monthIndex) \o numberToString(date.dayNumber)

\* `${currentDate.monthIndex}-${currentDate.dayNumber}`
dateKey(date) == numberToString(date.monthIndex) \o <<"-">> \o numberToString(date.dayNumber)

\* localStorage.getItem of a key that holds no item
noItem == [item |-> "null"]

\* the return value null of loadGameState
nullGameData == [gameData |-> "null"]

\* Array.from(gameModel.placedPieces.entries()): the pairs [name, placement]
entriesArray(entries) == [i \in 1..Len(entries) |-> <<entries[i].key, entries[i].value>>]

JSONstringify(gameData) ==
    [date |-> gameData.date,
     placedPieces |->
         [i \in 1..Len(gameData.placedPieces) |->
             <<gameData.placedPieces[i][1],
               [row |-> numberToString(gameData.placedPieces[i][2].row),
                col |-> numberToString(gameData.placedPieces[i][2].col),
                orientationIndex |-> numberToString(gameData.placedPieces[i][2].orientationIndex)]>>],
     occupiedSquares |-> gameData.occupiedSquares]

JSONparse(text) ==
    [date |-> text.date,
     placedPieces |->
         [i \in 1..Len(text.placedPieces) |->
             <<text.placedPieces[i][1],
               [row |-> parseNumber(text.placedPieces[i][2].row),
                col |-> parseNumber(text.placedPieces[i][2].col),
                orientationIndex |-> parseNumber(text.placedPieces[i][2].orientationIndex)]>>],
     occupiedSquares |-> text.occupiedSquares]

\* the item saveGameState leaves in localStorage; setItemThrows: localStorage.setItem
\* throws (the quota is exceeded), the error is logged and the item stays as it was
saveGameState(gameModel, date, storage, setItemThrows) ==
    LET gameData == [date |-> dateKey(date),
                     placedPieces |-> entriesArray(gameModel.placedPieces),
                     occupiedSquares |-> gameModel.occupiedSquares]
    IN  IF setItemThrows THEN storage ELSE JSONstringify(gameData)

\* the items are those saveGameState wrote: JSON.parse does not throw and both
\* arrays are there
loadGameState(date, storage) ==
    IF storage = noItem THEN nullGameData
    ELSE LET loaded[gameData \in Any] ==
                 IF gameData.date = dateKey(date)
                 THEN [placedPieces |-> gameData.placedPieces,
                       occupiedSquares |-> gameData.occupiedSquares]
                 ELSE nullGameData
         IN  loaded[JSONparse(storage)]

clearGameState(storage) == noItem

(***************************************************************************)
(* The state as a game model, and the record of a call.                    *)
(***************************************************************************)
gameModelNow == [placedPieces |-> placedPieces, occupiedSquares |-> occupiedSquares]

Call(op, args, ret) == [op |-> op, args |-> args, ret |-> ret]

LastCall == calls[Len(calls)]

\* console.error('Failed to save game state:', e) in the catch of saveGameState
consoleError(setItemThrows) ==
    IF setItemThrows THEN <<Call("console.error", <<"Failed to save game state:">>, undefined)>> ELSE <<>>

\* the absolute squares of one Map entry
EntrySquares(e) ==
    addSquares({}, pieceToGridCoords(At(getPiece(e.key).orientations, e.value.orientationIndex),
                                     e.value.row, e.value.col))

(***************************************************************************)
(* renderer.js: geometry and input handlers.  A canvas or client position  *)
(* is the tuple <<x, y>> in pixels.                                        *)
(***************************************************************************)
getGridPos(canvasX, canvasY, config) ==
    [row |-> (canvasY - config.PADDING) \div config.SQUARE_SIZE,
     col |-> (canvasX - config.PADDING) \div config.SQUARE_SIZE]

\* Math.round((min + max) / 2) rounds a half up; the loop keeps the first coordinate
\* at the least distance
getPieceCenter(coords) ==
    LET closest[cs \in Any] ==
            LET centerX == (MinOf({c[1] : c \in Range(cs)}) + MaxOf({c[1] : c \in Range(cs)}) + 1) \div 2
                centerY == (MinOf({c[2] : c \in Range(cs)}) + MaxOf({c[2] : c \in Range(cs)}) + 1) \div 2
                nearest[dist \in Any] ==
                    cs[CHOOSE i \in 1..Len(cs) :
                           /\ \A j \in 1..Len(cs) : dist[i] <= dist[j]
                           /\ \A j \in 1..(i - 1) : dist[j] # dist[i]]
            IN  IF Len(cs) = 0 THEN <<0, 0>>
                ELSE nearest[[i \in 1..Len(cs) |->
                                 (cs[i][1] - centerX) * (cs[i][1] - centerX)
                                 + (cs[i][2] - centerY) * (cs[i][2] - centerY)]]
    IN  closest[coords]

\* client coordinates to canvas coordinates; rect is canvas.getBoundingClientRect()
getCanvasCoords(rect, clientX, clientY) == <<clientX - rect.left, clientY - rect.top>>

\* the first entry of the Map with a square at the position, else null
getPlacedPieceAtPosition(canvasX, canvasY, entries, config) ==
    LET firstOf[hits \in Any] == IF hits = {} THEN null ELSE entries[MinOf(hits)].key
        under[pos \in Any] ==
            firstOf[{i \in 1..Len(entries) : <<pos.row, pos.col>> \in EntrySquares(entries[i])}]
    IN  under[getGridPos(canvasX, canvasY, config)]

\* the anchor and the squares of the selected piece when its centre square is put
\* on the square under the position (click handler and long-press timer)
placementAt(selectedPiece, selectedOrientation, canvasX, canvasY, config) ==
    LET anchored[coords \in Any] ==
            LET adjusted[center \in Any] ==
                    LET pos == getGridPos(canvasX, canvasY, config)
                    IN  [adjustedRow |-> pos.row - center[2],
                         adjustedCol |-> pos.col - center[1],
                         gridCoords |-> pieceToGridCoords(coords, pos.row - center[2],
                                                          pos.col - center[1])]
            IN  adjusted[getPieceCenter(coords)]
    IN  anchored[At(getPiece(selectedPiece).orientations, selectedOrientation)]

\* MUTANT of clickDecision: locks without looking at the validation
clickDecisionWithoutValidation(valid, useTapInPlace, isSameLocation) ==
    IF useTapInPlace
    THEN IF isSameLocation THEN "lock" ELSE "preview"
    ELSE "lock"

\* what the click handler does with a selected piece: "lock", "preview" or "reject"
clickDecision(valid, useTapInPlace, isSameLocation) ==
    IF valid
    THEN IF useTapInPlace
         THEN IF isSameLocation THEN "lock" ELSE "preview"
         ELSE "lock"
    ELSE "reject"

\* MUTANT of lockPiece: no win check after the placement
lockPieceWithoutWinCheck(gameModel, selectedPiece, adjustedRow, adjustedCol, selectedOrientation, date) ==
    LET locked[r \in Any] ==
            [placedPieces |-> r.placedPieces,
             occupiedSquares |-> r.occupiedSquares,
             calls |-> <<Call("placePiece",
                              <<selectedPiece, adjustedRow, adjustedCol, selectedOrientation>>, r.ret),
                         Call("saveGameState", <<date>>, undefined)>>]
    IN  locked[placePiece(gameModel, selectedPiece, adjustedRow, adjustedCol, selectedOrientation)]

\* "Lock the piece": placePiece, then checkWinCondition, then saveGameState
lockPiece(gameModel, selectedPiece, adjustedRow, adjustedCol, selectedOrientation, date) ==
    LET locked[r \in Any] ==
            [placedPieces |-> r.placedPieces,
             occupiedSquares |-> r.occupiedSquares,
             calls |-> <<Call("placePiece",
                              <<selectedPiece, adjustedRow, adjustedCol, selectedOrientation>>, r.ret),
                         Call("checkWinCondition", <<date>>,
                              Bool(checkWinCondition([placedPieces |-> r.placedPieces,
                                                      occupiedSquares |-> r.occupiedSquares], date))),
                         Call("saveGameState", <<date>>, undefined)>>]
    IN  locked[placePiece(gameModel, selectedPiece, adjustedRow, adjustedCol, selectedOrientation)]

\* MUTANT of pickUp: the piece is selected and stays on the board
pickUpWithoutRemove(gameModel, clickedPiece) ==
    [placedPieces |-> gameModel.placedPieces,
     occupiedSquares |-> gameModel.occupiedSquares,
     calls |-> <<>>]

\* the pick-up branch of the click handler: removePiece and nothing after it
pickUp(gameModel, clickedPiece) ==
    LET picked[r \in Any] ==
            [placedPieces |-> r.placedPieces,
             occupiedSquares |-> r.occupiedSquares,
             calls |-> <<Call("removePiece", <<clickedPiece>>, r.ret)>>]
    IN  picked[removePiece(gameModel, clickedPiece)]

\* the Escape branch of the keydown handler: removePiece, then saveGameState
escapeRemove(gameModel, pieceAtMouse, date) ==
    LET removed[r \in Any] ==
            [placedPieces |-> r.placedPieces,
             occupiedSquares |-> r.occupiedSquares,
             calls |-> <<Call("removePiece", <<pieceAtMouse>>, r.ret),
                         Call("saveGameState", <<date>>, undefined)>>]
    IN  removed[removePiece(gameModel, pieceAtMouse)]

\* placePiece for entries[order[1]], entries[order[2]], ... on gameModel
RECURSIVE Replay(_, _, _, _)
Replay(gameModel, entries, order, i) ==
    IF i > Len(entries) THEN gameModel
    ELSE LET e == entries[order[i]]
             next[r \in Any] ==
                 Replay([placedPieces |-> r.placedPieces, occupiedSquares |-> r.occupiedSquares],
                        entries, order, i + 1)
         IN  next[placePiece(gameModel, e.key, e.value.row, e.value.col, e.value.orientationIndex)]

(***************************************************************************)
(* main.js, as its callers in renderer.js describe it: selectPiece selects *)
(* a piece and "resets" the orientation "to 0"; rotation, flip and         *)
(* deselection reset the preview position; the tray offers the pieces that *)
(* are not placed (docs/design.md); gameState shares the Map and the Set   *)
(* of gameModel.                                                           *)
(***************************************************************************)
selectPiece(gs, name) == [gs EXCEPT !.selectedPiece = name, !.selectedOrientation = 0]

deselectPiece(gs) == [gs EXCEPT !.selectedPiece = null]

rotateClockwise(gs) ==
    [gs EXCEPT !.selectedOrientation = nextOrientation(gs.selectedPiece, gs.selectedOrientation)]

flipPiece(gs) ==
    [gs EXCEPT !.selectedOrientation = findFlippedOrientation(gs.selectedPiece, gs.selectedOrientation)]

resetPreviewPosition(h) == [h EXCEPT !.preview = nullPosition]

canSelectFromTray(entries, name) == ~mapHas(entries, name)

\* gameState.placedPieces and gameState.occupiedSquares, which the handlers read:
\* the Map and the Set of gameModel
gameStateView == [placedPieces |-> placedPieces, occupiedSquares |-> occupiedSquares]

\* whether localStorage.setItem throws when a handler saves the game: the saved
\* game is a few hundred bytes and the handlers' store has room for it (a store
\* without room is the subject of the saved game's own specification)
SetItemOutcomes == {FALSE}

\* timerTouch when no long-press timer is pending; while one is pending it holds
\* the piece that was selected at the touchstart that armed the timer and whether
\* that touch is over (a touchend has been handled since, or the finger has
\* moved more than LONG_PRESS_MOVE_THRESHOLD from where it went down)
noTimer == [piece |-> null, over |-> FALSE]

\* gameState before any input, and the handlers' variables as they are declared
initialGameState ==
    [selectedPiece |-> null, selectedOrientation |-> 0, mousePos |-> <<-1000, -1000>>]

\* preview is <<previewRow, previewCol>> (both null together); touchStart is
\* <<touchStartX, touchStartY>>; longPressTimeout is null or "pending"
initialHandlers ==
    [touchMoved |-> FALSE, lastInteractionWasTouch |-> FALSE, preview |-> nullPosition,
     touchStart |-> <<0, 0>>, longPressTimeout |-> null]

LONG_PRESS_MOVE_THRESHOLD == 10

SWIPE_THRESHOLD == 50

Abs(x) == IF x < 0 THEN 0 - x ELSE x

(***************************************************************************)
(* Inputs.  SolutionA is a solved board for 1 January and SolutionB one    *)
(* for 4 November (it covers the January and the day-1 squares); each is   *)
(* name -> <<row, col, orientationIndex>>.  OffBoard puts squares of any   *)
(* piece outside the grid.                                                 *)
(***************************************************************************)
SolutionA ==
    [L |-> <<0, 2, 0>>, N |-> <<0, 6, 7>>, P |-> <<4, 5, 5>>, U |-> <<1, 1, 0>>,
     V |-> <<3, 0, 0>>, Y |-> <<2, 3, 3>>, Z |-> <<1, 4, 3>>, RECTANGLE |-> <<4, 1, 0>>]

SolutionB ==
    [L |-> <<0, 1, 0>>, N |-> <<2, 6, 1>>, P |-> <<2, 3, 2>>, U |-> <<0, 5, 1>>,
     V |-> <<1, 2, 0>>, Y |-> <<4, 0, 2>>, Z |-> <<3, 4, 1>>, RECTANGLE |-> <<2, 0, 1>>]

OffBoard == <<-1, 6, 0>>

\* the pieces the engine operations are called for, most used first
PlayOrder == <<"L", "RECTANGLE", "N", "P", "Z", "Y", "U", "V">>

NumPlay == 3

PlayPieces == {PlayOrder[i] : i \in 1..NumPlay}

\* the placements placePiece is called with for piece n
PlaceInputsOf(n) ==
    {SolutionA[n], SolutionB[n]} \cup (IF n = PlayOrder[1] THEN {OffBoard} ELSE {})

\* removePiece is also called for one piece that is never placed
RemoveInputs == PlayPieces \cup {PlayOrder[NumPlay + 1]}

Date(m, d) == [monthIndex |-> m, dayNumber |-> d]

\* 1 January (SolutionA's date), 4 November (SolutionB's date), 1 February
DateInputs == <<Date(0, 1), Date(10, 4), Date(1, 1)>>

(***************************************************************************)
(* The engine on its own: any sequence of calls, arguments naming catalog  *)
(* pieces and orientation indices the piece has.                           *)
(***************************************************************************)
Init ==
    /\ placedPieces = createGameModel.placedPieces
    /\ occupiedSquares = createGameModel.occupiedSquares
    /\ currentDate = DateInputs[1]
    /\ gameState = initialGameState
    /\ handlers = initialHandlers
    /\ localStorage = noItem
    /\ timerTouch = noTimer
    /\ calls = <<Call("createGameModel", <<>>, undefined)>>

PlacePiece(n, a) ==
    \E r \in {placePiece(gameModelNow, n, a[1], a[2], a[3])} :
        /\ placedPieces' = r.placedPieces
        /\ occupiedSquares' = r.occupiedSquares
        /\ calls' = <<Call("placePiece", <<n, a[1], a[2], a[3]>>, r.ret)>>
        /\ UNCHANGED <<currentDate, timerTouch, localStorage, gameState, handlers>>

RemovePiece(n) ==
    \E r \in {removePiece(gameModelNow, n)} :
        /\ placedPieces' = r.placedPieces
        /\ occupiedSquares' = r.occupiedSquares
        /\ calls' = <<Call("removePiece", <<n>>, r.ret)>>
        /\ UNCHANGED <<currentDate, timerTouch, localStorage, gameState, handlers>>

ResetGameModel ==
    \E r \in {resetGameModel(gameModelNow)} :
        /\ placedPieces' = r.placedPieces
        /\ occupiedSquares' = r.occupiedSquares
        /\ calls' = <<Call("resetGameModel", <<>>, r.ret)>>
        /\ UNCHANGED <<currentDate, timerTouch, localStorage, gameState, handlers>>

Next ==
    \/ \E n \in PlayPieces : \E a \in PlaceInputsOf(n) : PlacePiece(n, a)
    \/ \E n \in RemoveInputs : RemovePiece(n)
    \/ ResetGameModel

Spec == Init /\ [][Next]_vars

(***************************************************************************)
(* The engine called with arguments outside the catalog: a piece name that *)
(* pieces does not have, and orientation indices the piece does not have.  *)
(***************************************************************************)
MisuseInputs == {<<"X", 0, 0, 0>>, <<"L", 0, 2, 8>>, <<"L", 0, 2, -1>>}

NextMisuse ==
    \/ \E n \in PlayPieces : PlacePiece(n, SolutionA[n])
    \/ \E m \in MisuseInputs : PlacePiece(m[1], <<m[2], m[3], m[4]>>)
    \/ \E n \in RemoveInputs : RemovePiece(n)
    \/ ResetGameModel

SpecMisuse == Init /\ [][NextMisuse]_vars

(***************************************************************************)
(* The engine on a board that earlier placePiece calls filled: the model   *)
(* holds SolutionA's placements of the pieces outside PlayPieces, placed   *)
(* in catalog order.  The session then calls the engine for the rest of    *)
(* SolutionA, and for a second placement of the first piece.               *)
(***************************************************************************)
EarlierPlacements ==
    LET names == SelectSeq(PieceNames, LAMBDA n : n \notin PlayPieces)
    IN  [i \in 1..Len(names) |->
            [key |-> names[i],
             value |-> [row |-> SolutionA[names[i]][1], col |-> SolutionA[names[i]][2],
                        orientationIndex |-> SolutionA[names[i]][3]]]]

InitEarlier ==
    \E last \in {EarlierPlacements[Len(EarlierPlacements)]} :
    \E r \in {Replay(createGameModel, EarlierPlacements, [i \in 1..Len(EarlierPlacements) |-> i], 1)} :
        /\ placedPieces = r.placedPieces
        /\ occupiedSquares = r.occupiedSquares
        /\ currentDate \in Range(DateInputs)
        /\ gameState = initialGameState
        /\ handlers = initialHandlers
        /\ localStorage = noItem
        /\ timerTouch = noTimer
        /\ calls = <<Call("placePiece",
                          <<last.key, last.value.row, last.value.col, last.value.orientationIndex>>,
                          "true")>>

NextEarlier ==
    \/ \E n \in PlayPieces : PlacePiece(n, SolutionA[n])
    \/ PlacePiece(PlayOrder[1], SolutionB[PlayOrder[1]])
    \/ \E n \in Range(PieceNames) : RemovePiece(n)
    \/ ResetGameModel

SpecEarlier == InitEarlier /\ [][NextEarlier]_vars

(***************************************************************************)
(* The two predicates as pure functions of their arguments.  The occupancy *)
(* is a small set of squares or the whole board without one, the model's   *)
(* placements are none or EarlierPlacements, the date is any date with a   *)
(* month square and a day square, and the squares tested are those of the  *)
(* first piece at its three placements.                                    *)
(***************************************************************************)
\* the January, day-1, November and day-4 squares
MissingCells == {<<0, 1>>, <<2, 0>>, <<1, 5>>, <<2, 3>>}

MaxMissing == 2

ValidSquares == {pos \in (0..(GRID_ROWS - 1)) \X (0..(GRID_COLS - 1)) : isValidGridPosition(pos[1], pos[2])}

OccupancyInputs ==
    LET small == {S \in SUBSET MissingCells : Cardinality(S) <= MaxMissing}
    IN  small \cup {ValidSquares \ S : S \in small}

AllDates == {Date(m, d) : m \in 0..11, d \in 1..31}

InitPure ==
    /\ placedPieces \in {<<>>, EarlierPlacements}
    /\ occupiedSquares \in OccupancyInputs
    /\ currentDate \in AllDates
    /\ gameState = initialGameState
    /\ handlers = initialHandlers
    /\ localStorage = noItem
    /\ timerTouch = noTimer
    /\ calls = <<Call("createGameModel", <<>>, undefined)>>

CheckWinCondition ==
    /\ calls' = <<Call("checkWinCondition", <<currentDate>>,
                       Bool(checkWinCondition(gameModelNow, currentDate)))>>
    /\ UNCHANGED <<placedPieces, occupiedSquares, currentDate, timerTouch, localStorage, gameState, handlers>>

\* the call of the handlers: isValidPlacement(gridCoords, occupiedSquares, currentDate)
IsValidPlacement(n, a) ==
    \E gridCoords \in {pieceToGridCoords(At(getPiece(n).orientations, a[3]), a[1], a[2])} :
        /\ calls' = <<Call("isValidPlacement", <<gridCoords, occupiedSquares, currentDate>>,
                           Bool(isValidPlacement(gridCoords, occupiedSquares)))>>
        /\ UNCHANGED <<placedPieces, occupiedSquares, currentDate, timerTouch, localStorage, gameState, handlers>>

NextPure ==
    \/ CheckWinCondition
    \/ \E a \in PlaceInputsOf(PlayOrder[1]) : IsValidPlacement(PlayOrder[1], a)

SpecPure == InitPure /\ [][NextPure]_vars

(***************************************************************************)
(* The input handlers.  Events carry client positions; the canvas is at    *)
(* CanvasRect and is drawn with RenderConfig.  The tray holds UiPieces.    *)
(* The positions are the centres of the squares (5, 2) and (4, 1); a touch *)
(* also moves to a point 8 pixels right of the first (the same square).    *)
(***************************************************************************)
RenderConfig == [PADDING |-> 20, SQUARE_SIZE |-> 60]

CanvasRect == [left |-> 10, top |-> 10]

squareCentre(row, col) ==
    <<CanvasRect.left + RenderConfig.PADDING + col * RenderConfig.SQUARE_SIZE + 30,
      CanvasRect.top + RenderConfig.PADDING + row * RenderConfig.SQUARE_SIZE + 30>>

ClientPoints == {squareCentre(5, 2), squareCentre(4, 1)}

UiPieces == {"RECTANGLE", "V"}

InitUI ==
    /\ placedPieces = createGameModel.placedPieces
    /\ occupiedSquares = createGameModel.occupiedSquares
    /\ currentDate = DateInputs[1]
    /\ gameState = initialGameState
    /\ handlers = initialHandlers
    /\ localStorage = noItem
    /\ timerTouch = noTimer
    /\ calls = <<Call("createGameModel", <<>>, undefined)>>

\* a click on a piece of the tray
TraySelect(n) ==
    /\ canSelectFromTray(placedPieces, n)
    /\ gameState' = selectPiece(gameState, n)
    /\ calls' = <<Call("trayClick", <<n>>, undefined), Call("selectPiece", <<n>>, undefined)>>
    /\ UNCHANGED <<placedPieces, occupiedSquares, currentDate, timerTouch, localStorage, handlers>>

MouseMove(p) ==
    /\ handlers' = [handlers EXCEPT !.lastInteractionWasTouch = FALSE]
    /\ gameState' = [gameState EXCEPT !.mousePos = getCanvasCoords(CanvasRect, p[1], p[2])]
    /\ calls' = <<Call("mousemove", p, undefined)>>
    /\ UNCHANGED <<placedPieces, occupiedSquares, currentDate, timerTouch, localStorage>>

MouseLeave(isMovingToButton) ==
    /\ gameState' = IF gameState.selectedPiece # null /\ ~isMovingToButton
                    THEN [deselectPiece(gameState) EXCEPT !.mousePos = <<-1000, -1000>>]
                    ELSE [gameState EXCEPT !.mousePos = <<-1000, -1000>>]
    /\ handlers' = IF gameState.selectedPiece # null /\ ~isMovingToButton
                   THEN resetPreviewPosition(handlers)
                   ELSE handlers
    /\ calls' = <<Call("mouseleave", <<>>, undefined)>>
    /\ UNCHANGED <<placedPieces, occupiedSquares, currentDate, timerTouch, localStorage>>

\* the click handler with no piece selected and a placed piece under the pointer
ClickPickUp(p, clickedPiece) ==
    \E placement \in {mapGet(placedPieces, clickedPiece)} :
    \E r \in {pickUp(gameModelNow, clickedPiece)} :
        /\ gameState' = [selectPiece(gameState, clickedPiece) EXCEPT
                            !.selectedOrientation = placement.orientationIndex]
        /\ handlers' = [handlers EXCEPT !.touchMoved = FALSE, !.preview = nullPosition]
        /\ placedPieces' = r.placedPieces
        /\ occupiedSquares' = r.occupiedSquares
        /\ calls' = <<Call("click", p, undefined), Call("selectPiece", <<clickedPiece>>, undefined)>>
                    \o r.calls
        /\ UNCHANGED <<currentDate, timerTouch, localStorage>>

\* the click handler with a piece selected
ClickPlace(p) ==
    \E canvas \in {getCanvasCoords(CanvasRect, p[1], p[2])} :
    \E at \in {placementAt(gameState.selectedPiece, gameState.selectedOrientation,
                           canvas[1], canvas[2], RenderConfig)} :
    \E valid \in {isValidPlacement(at.gridCoords, gameStateView.occupiedSquares)} :
    \E decision \in {clickDecision(valid, handlers.lastInteractionWasTouch,
                                   handlers.preview = <<at.adjustedRow, at.adjustedCol>>)} :
        /\ IF decision = "lock"
           THEN \E r \in {lockPiece(gameModelNow, gameState.selectedPiece, at.adjustedRow,
                                    at.adjustedCol, gameState.selectedOrientation, currentDate)} :
                \E setItemThrows \in SetItemOutcomes :
                    /\ placedPieces' = r.placedPieces
                    /\ occupiedSquares' = r.occupiedSquares
                    /\ localStorage' = saveGameState(r, currentDate, localStorage, setItemThrows)
                    /\ gameState' = [gameState EXCEPT !.selectedPiece = null]
                    /\ handlers' = [handlers EXCEPT !.touchMoved = FALSE, !.preview = nullPosition]
                    /\ calls' = <<Call("click", p, undefined),
                                  Call("isValidPlacement",
                                       <<at.gridCoords, gameStateView.occupiedSquares, currentDate>>, Bool(valid))>>
                                \o r.calls \o consoleError(setItemThrows)
           ELSE /\ handlers' = [handlers EXCEPT
                                   !.touchMoved = FALSE,
                                   !.preview = IF decision = "preview"
                                               THEN <<at.adjustedRow, at.adjustedCol>>
                                               ELSE @]
                /\ calls' = <<Call("click", p, undefined),
                              Call("isValidPlacement",
                                   <<at.gridCoords, gameStateView.occupiedSquares, currentDate>>, Bool(valid))>>
                /\ UNCHANGED <<placedPieces, occupiedSquares, gameState, localStorage>>
        /\ UNCHANGED <<currentDate, timerTouch>>

Click(p) ==
    \E canvas \in {getCanvasCoords(CanvasRect, p[1], p[2])} :
    \E clickedPiece \in {getPlacedPieceAtPosition(canvas[1], canvas[2], gameStateView.placedPieces,
                                                  RenderConfig)} :
        IF clickedPiece # null /\ gameState.selectedPiece = null
        THEN ClickPickUp(p, clickedPiece)
        ELSE IF gameState.selectedPiece = null
        THEN /\ handlers' = [handlers EXCEPT !.touchMoved = FALSE]
             /\ calls' = <<Call("click", p, undefined)>>
             /\ UNCHANGED <<placedPieces, occupiedSquares, currentDate, timerTouch, localStorage, gameState>>
        ELSE ClickPlace(p)

TouchStart(p) ==
    IF gameState.selectedPiece = null
    THEN /\ calls' = <<Call("touchstart", p, undefined)>>
         /\ UNCHANGED <<placedPieces, occupiedSquares, currentDate, timerTouch, localStorage, gameState, handlers>>
    ELSE /\ handlers' = [handlers EXCEPT
                            !.touchStart = p,
                            !.touchMoved = FALSE,
                            !.lastInteractionWasTouch = TRUE,
                            !.longPressTimeout = "pending"]
         /\ timerTouch' = [piece |-> gameState.selectedPiece, over |-> FALSE]
         /\ gameState' = [gameState EXCEPT !.mousePos = getCanvasCoords(CanvasRect, p[1], p[2])]
         /\ calls' = <<Call("touchstart", p, undefined)>>
         /\ UNCHANGED <<placedPieces, occupiedSquares, currentDate, localStorage>>

TouchMove(p) ==
    IF gameState.selectedPiece = null
    THEN /\ calls' = <<Call("touchmove", p, undefined)>>
         /\ timerTouch' = IF handlers.longPressTimeout = "pending"
                              /\ (\/ Abs(p[1] - handlers.touchStart[1]) > LONG_PRESS_MOVE_THRESHOLD
                                  \/ Abs(p[2] - handlers.touchStart[2]) > LONG_PRESS_MOVE_THRESHOLD)
                          THEN [timerTouch EXCEPT !.over = TRUE]
                          ELSE timerTouch
         /\ UNCHANGED <<placedPieces, occupiedSquares, currentDate, localStorage, gameState, handlers>>
    ELSE \E deltaX \in {Abs(p[1] - handlers.touchStart[1])} :
         \E deltaY \in {Abs(p[2] - handlers.touchStart[2])} :
             /\ handlers' = [handlers EXCEPT
                                !.touchMoved = IF deltaX > 5 \/ deltaY > 5 THEN TRUE ELSE @,
                                !.longPressTimeout =
                                    IF deltaX > LONG_PRESS_MOVE_THRESHOLD \/ deltaY > LONG_PRESS_MOVE_THRESHOLD
                                    THEN null ELSE @]
             /\ timerTouch' = IF deltaX > LONG_PRESS_MOVE_THRESHOLD \/ deltaY > LONG_PRESS_MOVE_THRESHOLD
                              THEN noTimer ELSE timerTouch
             /\ gameState' = [gameState EXCEPT !.mousePos = getCanvasCoords(CanvasRect, p[1], p[2])]
             /\ calls' = <<Call("touchmove", p, undefined)>>
             /\ UNCHANGED <<placedPieces, occupiedSquares, currentDate, localStorage>>

\* isSlow: touchDuration > SWIPE_TIME_THRESHOLD; touchStartMousePos is the canvas
\* position of the touchstart
TouchEnd(p, isSlow) ==
    IF gameState.selectedPiece = null
    THEN /\ calls' = <<Call("touchend", p, undefined)>>
         /\ timerTouch' = IF handlers.longPressTimeout = "pending"
                          THEN [timerTouch EXCEPT !.over = TRUE]
                          ELSE timerTouch
         /\ UNCHANGED <<placedPieces, occupiedSquares, currentDate, localStorage, gameState, handlers>>
    ELSE \E deltaX \in {p[1] - handlers.touchStart[1]} :
         \E deltaY \in {p[2] - handlers.touchStart[2]} :
         \E horizontal \in {Abs(deltaX) > SWIPE_THRESHOLD /\ Abs(deltaX) > Abs(deltaY)} :
         \E vertical \in {~horizontal /\ Abs(deltaY) > SWIPE_THRESHOLD /\ Abs(deltaY) > Abs(deltaX)} :
         \E touchStartMousePos \in {getCanvasCoords(CanvasRect, handlers.touchStart[1],
                                                     handlers.touchStart[2])} :
             /\ handlers' =
                    IF ~isSlow /\ ((horizontal /\ deltaX <= 0) \/ (vertical /\ deltaY < 0))
                    THEN resetPreviewPosition([handlers EXCEPT !.longPressTimeout = null])
                    ELSE [handlers EXCEPT !.longPressTimeout = null]
             /\ gameState' =
                    IF isSlow \/ ~(horizontal \/ vertical) THEN gameState
                    ELSE IF horizontal /\ deltaX > 0
                    THEN LET back[length \in Any] ==
                                 [gameState EXCEPT !.selectedOrientation = jsRem(@ - 1 + length, length),
                                                   !.mousePos = touchStartMousePos]
                         IN  back[Len(getPiece(gameState.selectedPiece).orientations)]
                    ELSE IF horizontal
                    THEN [rotateClockwise(gameState) EXCEPT !.mousePos = touchStartMousePos]
                    ELSE IF deltaY < 0
                    THEN [flipPiece(gameState) EXCEPT !.mousePos = touchStartMousePos]
                    ELSE [gameState EXCEPT !.mousePos = touchStartMousePos]
             /\ timerTouch' = noTimer
             /\ calls' = <<Call("touchend", p, undefined)>>
             /\ UNCHANGED <<placedPieces, occupiedSquares, currentDate, localStorage>>

\* the callback of the long-press timer
LongPressTimer ==
    /\ handlers.longPressTimeout = "pending"
    /\ handlers' = [handlers EXCEPT !.longPressTimeout = null]
    /\ timerTouch' = noTimer
    /\ IF gameState.selectedPiece = null
       THEN /\ calls' = <<Call("longPressTimer", <<>>, undefined)>>
            /\ UNCHANGED <<placedPieces, occupiedSquares, gameState, localStorage>>
       ELSE \E at \in {placementAt(gameState.selectedPiece, gameState.selectedOrientation,
                                   gameState.mousePos[1], gameState.mousePos[2], RenderConfig)} :
            \E valid \in {isValidPlacement(at.gridCoords, gameStateView.occupiedSquares)} :
                IF valid
                THEN \E r \in {lockPiece(gameModelNow, gameState.selectedPiece, at.adjustedRow,
                                         at.adjustedCol, gameState.selectedOrientation, currentDate)} :
                     \E setItemThrows \in SetItemOutcomes :
                         /\ placedPieces' = r.placedPieces
                         /\ occupiedSquares' = r.occupiedSquares
                         /\ localStorage' = saveGameState(r, currentDate, localStorage, setItemThrows)
                         /\ gameState' = [gameState EXCEPT !.selectedPiece = null]
                         /\ calls' = <<Call("longPressTimer", <<>>, undefined),
                                       Call("isValidPlacement",
                                            <<at.gridCoords, gameStateView.occupiedSquares, currentDate>>, "true")>>
                                     \o r.calls \o consoleError(setItemThrows)
                ELSE /\ calls' = <<Call("longPressTimer", <<>>, undefined),
                                   Call("isValidPlacement",
                                        <<at.gridCoords, gameStateView.occupiedSquares, currentDate>>, "false")>>
                     /\ UNCHANGED <<placedPieces, occupiedSquares, gameState, localStorage>>
    /\ UNCHANGED currentDate

\* keydown of "r"
KeyRotate ==
    /\ gameState.selectedPiece # null
    /\ gameState' = rotateClockwise(gameState)
    /\ handlers' = resetPreviewPosition(handlers)
    /\ calls' = <<Call("keydown", <<"r">>, undefined)>>
    /\ UNCHANGED <<placedPieces, occupiedSquares, currentDate, timerTouch, localStorage>>

\* keydown of "Escape"
KeyEscape ==
    \E pieceAtMouse \in {getPlacedPieceAtPosition(gameState.mousePos[1], gameState.mousePos[2],
                                                  gameStateView.placedPieces, RenderConfig)} :
        /\ IF pieceAtMouse # null
           THEN \E r \in {escapeRemove(gameModelNow, pieceAtMouse, currentDate)} :
                \E setItemThrows \in SetItemOutcomes :
                    /\ placedPieces' = r.placedPieces
                    /\ occupiedSquares' = r.occupiedSquares
                    /\ localStorage' = saveGameState(r, currentDate, localStorage, setItemThrows)
                    /\ calls' = <<Call("keydown", <<"Escape">>, undefined)>> \o r.calls
                                \o consoleError(setItemThrows)
           ELSE /\ calls' = <<Call("keydown", <<"Escape">>, undefined)>>
                /\ UNCHANGED <<placedPieces, occupiedSquares, localStorage>>
        /\ UNCHANGED <<currentDate, timerTouch, gameState, handlers>>

NextUI ==
    \/ \E n \in UiPieces : TraySelect(n)
    \/ ResetGameModel
    \/ \E p \in ClientPoints : MouseMove(p)
    \/ \E b \in BOOLEAN : MouseLeave(b)
    \/ \E p \in ClientPoints : Click(p)
    \/ \E p \in ClientPoints : TouchStart(p)
    \/ \E p \in ClientPoints \cup {<<squareCentre(5, 2)[1] + 8, squareCentre(5, 2)[2]>>} : TouchMove(p)
    \/ \E p \in ClientPoints : \E isSlow \in BOOLEAN : TouchEnd(p, isSlow)
    \/ LongPressTimer
    \/ KeyRotate
    \/ KeyEscape

SpecUI == InitUI /\ [][NextUI]_vars

(***************************************************************************)
(* Validation and placement together, on 1 January: isValidPlacement is    *)
(* called for a placement, placePiece places it, and isValidPlacement is   *)
(* called again.  The placements are those of Spec and the L piece in      *)
(* orientation 0 at row 2, column 0.                                       *)
(***************************************************************************)
LShapeCase == <<2, 0, 0>>

ValidatedInputsOf(n) == PlaceInputsOf(n) \cup (IF n = "L" THEN {LShapeCase} ELSE {})

NextValidated ==
    \/ \E n \in PlayPieces : \E a \in ValidatedInputsOf(n) : IsValidPlacement(n, a)
    \/ \E n \in PlayPieces : \E a \in ValidatedInputsOf(n) : PlacePiece(n, a)
    \/ \E n \in PlayPieces : RemovePiece(n)

SpecValidated == Init /\ [][NextValidated]_vars

(***************************************************************************)
(* The engine under the discipline of the click handler and the long-press *)
(* timer: a piece that is not on the board is validated against the        *)
(* occupancy and placed only if isValidPlacement accepts it; removePiece   *)
(* and resetGameModel are called at any time.  A session starts from the   *)
(* empty board or from the board the five earlier placements left.         *)
(***************************************************************************)
ValidateAndPlace(n, a) ==
    /\ ~mapHas(placedPieces, n)
    /\ \E gridCoords \in {pieceToGridCoords(At(getPiece(n).orientations, a[3]), a[1], a[2])} :
       \E valid \in {isValidPlacement(gridCoords, occupiedSquares)} :
           IF valid
           THEN \E r \in {placePiece(gameModelNow, n, a[1], a[2], a[3])} :
                    /\ placedPieces' = r.placedPieces
                    /\ occupiedSquares' = r.occupiedSquares
                    /\ calls' = <<Call("isValidPlacement", <<gridCoords, occupiedSquares, currentDate>>, "true"),
                                  Call("placePiece", <<n, a[1], a[2], a[3]>>, r.ret)>>
           ELSE /\ calls' = <<Call("isValidPlacement", <<gridCoords, occupiedSquares, currentDate>>, "false")>>
                /\ UNCHANGED <<placedPieces, occupiedSquares>>
    /\ UNCHANGED <<currentDate, timerTouch, localStorage, gameState, handlers>>

NextDisciplined ==
    \/ \E n \in PlayPieces : \E a \in ValidatedInputsOf(n) : ValidateAndPlace(n, a)
    \/ \E n \in RemoveInputs : RemovePiece(n)
    \/ ResetGameModel

SpecDisciplined == (Init \/ InitEarlier) /\ [][NextDisciplined]_vars

(***************************************************************************)
(* The engine with a caller that puts a piece down and takes it up again:  *)
(* placePiece and then removePiece of the same piece, nothing in between.  *)
(***************************************************************************)
PlaceThenRemove(n, a) ==
    \E placed \in {placePiece(gameModelNow, n, a[1], a[2], a[3])} :
    \E r \in {removePiece([placedPieces |-> placed.placedPieces,
                             occupiedSquares |-> placed.occupiedSquares], n)} :
        /\ placedPieces' = r.placedPieces
        /\ occupiedSquares' = r.occupiedSquares
        /\ calls' = <<Call("placePiece", <<n, a[1], a[2], a[3]>>, placed.ret),
                      Call("removePiece", <<n>>, r.ret)>>
        /\ UNCHANGED <<currentDate, timerTouch, localStorage, gameState, handlers>>

NextRoundTrip ==
    \/ \E n \in PlayPieces : \E a \in PlaceInputsOf(n) : PlacePiece(n, a)
    \/ \E n \in RemoveInputs : RemovePiece(n)
    \/ \E n \in PlayPieces : \E a \in PlaceInputsOf(n) : PlaceThenRemove(n, a)

SpecRoundTrip == Init /\ [][NextRoundTrip]_vars

(***************************************************************************)
(* The catalog on its own: its operations called with the names of the     *)
(* pieces and a name pieces does not have, and with indices on both sides  *)
(* of 0..count-1.  The return value of a call is [threw, value].           *)
(***************************************************************************)
\* the return value of a call: [threw, <kind of value> |-> value]
ReturnedPiece(v) == [threw |-> FALSE, piece |-> v]

ReturnedOrientations(v) == [threw |-> FALSE, orientations |-> v]

ReturnedCoords(v) == [threw |-> FALSE, coords |-> v]

ReturnedIndex(v) == [threw |-> FALSE, index |-> v]

Thrown == [threw |-> TRUE, error |-> TypeError]

UnknownName == "X"

NameInputs == Range(PieceNames) \cup {UnknownName}

MaxIndex == 10

IndexInputs == (0 - MaxIndex)..MaxIndex

\* the multiples of the orientation count an index is shifted by
MaxWrap == 2

GetPiece(n) ==
    /\ calls' = <<Call("getPiece", [name |-> n], ReturnedPiece(getPiece(n)))>>
    /\ UNCHANGED <<placedPieces, occupiedSquares, currentDate, timerTouch, localStorage, gameState, handlers>>

GenerateOrientations(n) ==
    /\ calls' = <<Call("generateOrientations", [baseCoords |-> baseShape[n]],
                       ReturnedOrientations(generateOrientations(baseShape[n])))>>
    /\ UNCHANGED <<placedPieces, occupiedSquares, currentDate, timerTouch, localStorage, gameState, handlers>>

GetPieceOrientation(n, i) ==
    /\ calls' = <<Call("getPieceOrientation", [name |-> n, orientationIndex |-> i],
                       ReturnedCoords(getPieceOrientation(n, i)))>>
    /\ UNCHANGED <<placedPieces, occupiedSquares, currentDate, timerTouch, localStorage, gameState, handlers>>

NextOrientation(n, i) ==
    /\ calls' = <<Call("nextOrientation", [name |-> n, currentIndex |-> i],
                       ReturnedIndex(nextOrientation(n, i)))>>
    /\ UNCHANGED <<placedPieces, occupiedSquares, currentDate, timerTouch, localStorage, gameState, handlers>>

PrevOrientation(n, i) ==
    /\ calls' = <<Call("prevOrientation", [name |-> n, currentIndex |-> i],
                       ReturnedIndex(prevOrientation(n, i)))>>
    /\ UNCHANGED <<placedPieces, occupiedSquares, currentDate, timerTouch, localStorage, gameState, handlers>>

FindFlippedOrientation(n, i) ==
    /\ calls' = <<Call("findFlippedOrientation", [name |-> n, currentIndex |-> i],
                       IF findFlippedThrows(n, i) THEN Thrown
                       ELSE ReturnedIndex(findFlippedOrientation(n, i)))>>
    /\ UNCHANGED <<placedPieces, occupiedSquares, currentDate, timerTouch, localStorage, gameState, handlers>>

\* rotateCoords applied four times in succession to orientation i of piece n
RotateCoords(n, i) ==
    \E first \in {rotateCoords(At(getPiece(n).orientations, i))} :
    \E second \in {rotateCoords(first)} :
    \E third \in {rotateCoords(second)} :
        /\ calls' = <<Call("rotateCoords", [coords |-> At(getPiece(n).orientations, i)],
                           ReturnedCoords(first)),
                      Call("rotateCoords", [coords |-> first], ReturnedCoords(second)),
                      Call("rotateCoords", [coords |-> second], ReturnedCoords(third)),
                      Call("rotateCoords", [coords |-> third], ReturnedCoords(rotateCoords(third)))>>
        /\ UNCHANGED <<placedPieces, occupiedSquares, currentDate, timerTouch, localStorage, gameState, handlers>>

NextCatalog ==
    \/ \E n \in NameInputs : GetPiece(n)
    \/ \E n \in Range(PieceNames) : GenerateOrientations(n)
    \/ \E n \in NameInputs : \E i \in IndexInputs : GetPieceOrientation(n, i)
    \/ \E n \in NameInputs : \E i \in IndexInputs : NextOrientation(n, i)
    \/ \E n \in NameInputs : \E i \in IndexInputs : PrevOrientation(n, i)
    \/ \E n \in NameInputs : \E i \in IndexInputs : FindFlippedOrientation(n, i)
    \/ \E n \in Range(PieceNames) :
          \E i \in 0..(Len(getPiece(n).orientations) - 1) : RotateCoords(n, i)

SpecCatalog == Init /\ [][NextCatalog]_vars

(***************************************************************************)
(* The board on its own: its operations called with positions inside and   *)
(* outside the grid, and with month indices and day numbers on both sides  *)
(* of the calendar's.                                                      *)
(***************************************************************************)
ReturnedBoolean(v) == [threw |-> FALSE, boolean |-> v]

ReturnedPosition(v) == [threw |-> FALSE, position |-> v]

ReturnedGrid(v) == [threw |-> FALSE, grid |-> v]

MaxCoord == 9

CoordInputs == (0 - 2)..MaxCoord

MaxMonth == 13

MonthInputs == (0 - 2)..MaxMonth

MaxDay == 33

DayInputs == (0 - 2)..MaxDay

InitializeGrid ==
    /\ calls' = <<Call("initializeGrid", [arguments |-> <<>>], ReturnedGrid(initializeGrid))>>
    /\ UNCHANGED <<placedPieces, occupiedSquares, currentDate, timerTouch, localStorage, gameState, handlers>>

IsValidGridPosition(row, col) ==
    /\ calls' = <<Call("isValidGridPosition", [row |-> row, col |-> col],
                       ReturnedBoolean(isValidGridPosition(row, col)))>>
    /\ UNCHANGED <<placedPieces, occupiedSquares, currentDate, timerTouch, localStorage, gameState, handlers>>

FindMonthPosition(m) ==
    /\ calls' = <<Call("findMonthPosition", [monthIndex |-> m],
                       ReturnedPosition(findMonthPosition(m)))>>
    /\ UNCHANGED <<placedPieces, occupiedSquares, currentDate, timerTouch, localStorage, gameState, handlers>>

FindDayPosition(d) ==
    /\ calls' = <<Call("findDayPosition", [dayNumber |-> d],
                       ReturnedPosition(findDayPosition(d)))>>
    /\ UNCHANGED <<placedPieces, occupiedSquares, currentDate, timerTouch, localStorage, gameState, handlers>>

NextBoard ==
    \/ InitializeGrid
    \/ \E row \in CoordInputs : \E col \in CoordInputs : IsValidGridPosition(row, col)
    \/ \E m \in MonthInputs : FindMonthPosition(m)
    \/ \E d \in DayInputs : FindDayPosition(d)

SpecBoard == Init /\ [][NextBoard]_vars

(***************************************************************************)
(* The saved game.  A session finds in localStorage what an earlier        *)
(* session left there: no item, or the item a save wrote for a model and a *)
(* date.  The dates tell the months 1 and 11 and the days 1 and 11 apart;  *)
(* one saved model has a negative row.                                     *)
(***************************************************************************)
ReturnedGameData(v) == [threw |-> FALSE, gameData |-> v]

ReturnedUndefined == [threw |-> FALSE, nothing |-> undefined]

PlacementEntry(n, a) == [key |-> n, value |-> [row |-> a[1], col |-> a[2], orientationIndex |-> a[3]]]

StorageModels ==
    {Replay(createGameModel, entries, [i \in 1..Len(entries) |-> i], 1) :
        entries \in {<<>>,
                     <<PlacementEntry("L", OffBoard)>>,
                     <<PlacementEntry("L", SolutionA["L"]),
                       PlacementEntry("RECTANGLE", SolutionA["RECTANGLE"])>>,
                     <<PlacementEntry("RECTANGLE", SolutionA["RECTANGLE"]),
                       PlacementEntry("L", SolutionA["L"])>>}}

StorageDates == {Date(0, 1), Date(1, 11), Date(11, 1), Date(1, 1), Date(11, 11)}

InitStorage ==
    \E m \in StorageModels :
        /\ placedPieces = m.placedPieces
        /\ occupiedSquares = m.occupiedSquares
        /\ currentDate \in StorageDates
        /\ gameState = initialGameState
        /\ handlers = initialHandlers
        /\ localStorage \in {noItem} \cup {saveGameState(sm, d, noItem, FALSE) :
                                              sm \in StorageModels, d \in StorageDates}
        /\ timerTouch = noTimer
        /\ calls = <<Call("createGameModel", <<>>, undefined)>>

SaveGameState(setItemThrows) ==
    /\ localStorage' = saveGameState(gameModelNow, currentDate, localStorage, setItemThrows)
    /\ calls' = <<Call("saveGameState", [gameModel |-> gameModelNow, currentDate |-> currentDate],
                       ReturnedUndefined)>>
                 \o consoleError(setItemThrows)
    /\ UNCHANGED <<placedPieces, occupiedSquares, currentDate, timerTouch, gameState, handlers>>

LoadGameState(d) ==
    /\ calls' = <<Call("loadGameState", [currentDate |-> d],
                       ReturnedGameData(loadGameState(d, localStorage)))>>
    /\ UNCHANGED <<placedPieces, occupiedSquares, currentDate, timerTouch, gameState, handlers, localStorage>>

ClearGameState ==
    /\ localStorage' = clearGameState(localStorage)
    /\ calls' = <<Call("clearGameState", [arguments |-> <<>>], ReturnedUndefined)>>
    /\ UNCHANGED <<placedPieces, occupiedSquares, currentDate, timerTouch, gameState, handlers>>

NextStorage ==
    \/ \E setItemThrows \in BOOLEAN : SaveGameState(setItemThrows)
    \/ \E d \in StorageDates : LoadGameState(d)
    \/ ClearGameState

SpecStorage == InitStorage /\ [][NextStorage]_vars

(***************************************************************************)
(* What the claims speak of.                                               *)
(***************************************************************************)
SquaresOf(n, row, col, orientationIndex) ==
    EntrySquares([key |-> n, value |-> [row |-> row, col |-> col, orientationIndex |-> orientationIndex]])

UnionOfPlacements == UNION {EntrySquares(e) : e \in Range(placedPieces)}

\* the squares a win on date d needs covered
RequiredSquares(d) == ValidSquares \ {findMonthPosition(d.monthIndex), findDayPosition(d.dayNumber)}

\* every order of the indices 1..n
Orders(n) == {f \in [1..n -> 1..n] : \A i, j \in 1..n : f[i] = f[j] => i = j}

\* the handler run cs called op for piece n
CalledFor(cs, op, n) == \E i \in 1..Len(cs) : cs[i].op = op /\ cs[i].args[1] = n

Called(cs, op) == \E i \in 1..Len(cs) : cs[i].op = op

\* C1: in every state reachable by placePiece, removePiece and resetGameModel
\* (valid arguments, placePiece on a placed piece included) occupiedSquares is
\* exactly the union of the squares of the placements in placedPieces.
C1_OccupancyIsUnionOfPlacements == occupiedSquares = UnionOfPlacements

\* C2: isValidPlacement, called with the squares, the occupancy and the date,
\* returns true iff every square is a valid board square, is not occupied and is
\* neither the square of the date's month nor the square of the date's day.
C2_ValidIffOnBoardFreeAndOffDate ==
    LastCall.op = "isValidPlacement" =>
        (LastCall.ret = "true" <=>
            \A square \in Range(LastCall.args[1]) :
                /\ square \in ValidSquares
                /\ square \notin LastCall.args[2]
                /\ square # findMonthPosition(LastCall.args[3].monthIndex)
                /\ square # findDayPosition(LastCall.args[3].dayNumber))

\* C3: checkWinCondition returns true iff occupiedSquares holds every valid
\* square other than the month square and the day square of the date, and the
\* result is the same whatever placedPieces holds.
C3_WinIffRequiredCovered ==
    LastCall.op = "checkWinCondition" =>
        /\ LastCall.ret = "true" <=> RequiredSquares(currentDate) \subseteq occupiedSquares
        /\ \A entries \in {<<>>, EarlierPlacements} :
              Bool(checkWinCondition([placedPieces |-> entries, occupiedSquares |-> occupiedSquares],
                                     currentDate)) = LastCall.ret

\* a win on 1 January with both date squares uncovered, for a model with placements
C3_Witness ==
    /\ LastCall.op = "checkWinCondition" /\ LastCall.ret = "true"
    /\ currentDate = Date(0, 1)
    /\ occupiedSquares = ValidSquares \ {<<0, 1>>, <<2, 0>>}
    /\ placedPieces # <<>>

\* C4: from a state where checkWinCondition is true, removePiece of a placed
\* piece that covers a required square leaves a state where it is false.
C4_RemoveFlipsWin ==
    [][(/\ LastCall'.op = "removePiece" /\ LastCall'.ret = "true"
        /\ checkWinCondition(gameModelNow, currentDate)
        /\ SquaresOf(LastCall'.args[1],
                     mapGet(placedPieces, LastCall'.args[1]).row,
                     mapGet(placedPieces, LastCall'.args[1]).col,
                     mapGet(placedPieces, LastCall'.args[1]).orientationIndex)
               \cap RequiredSquares(currentDate) # {})
       => ~checkWinCondition([placedPieces |-> placedPieces', occupiedSquares |-> occupiedSquares'],
                             currentDate')]_vars

\* removePiece has just removed a piece other than the first from the solved
\* board of 1 January: the seven others still lie where SolutionA puts them
C4_Witness ==
    /\ LastCall.op = "removePiece" /\ LastCall.ret = "true"
    /\ LastCall.args[1] # PlayOrder[1]
    /\ currentDate = Date(0, 1)
    /\ Len(placedPieces) = 7
    /\ \A e \in Range(placedPieces) :
          <<e.value.row, e.value.col, e.value.orientationIndex>> = SolutionA[e.key]
    /\ ~checkWinCondition(gameModelNow, currentDate)

\* C5: after removePiece has removed a placed piece, occupiedSquares is the
\* occupancy of an empty model on which placePiece was called for each remaining
\* placement, whatever the order of those calls.
C5_RemoveEqualsReplayInAnyOrder ==
    (LastCall.op = "removePiece" /\ LastCall.ret = "true") =>
        \A order \in Orders(Len(placedPieces)) :
            Replay(createGameModel, placedPieces, order, 1).occupiedSquares = occupiedSquares

\* a removal that left two placements sharing a square
C5_Witness ==
    /\ LastCall.op = "removePiece" /\ LastCall.ret = "true"
    /\ Len(placedPieces) >= 2
    /\ EntrySquares(placedPieces[1]) \cap EntrySquares(placedPieces[2]) # {}

\* C6: placePiece never rejects: whatever the anchor, it returns true, records
\* (row, col, orientationIndex) as the piece's only placement, leaves the other
\* placements alone and adds the new squares to the earlier occupancy.
C6_PlaceNeverRejects ==
    [][LastCall'.op = "placePiece" =>
        LET n == LastCall'.args[1]
            row == LastCall'.args[2]
            col == LastCall'.args[3]
            o == LastCall'.args[4]
        IN  /\ LastCall'.ret = "true"
            /\ Cardinality({i \in 1..Len(placedPieces') : placedPieces'[i].key = n}) = 1
            /\ mapGet(placedPieces', n) = [row |-> row, col |-> col, orientationIndex |-> o]
            /\ \A e \in Range(placedPieces) : e.key # n => e \in Range(placedPieces')
            /\ \A e \in Range(placedPieces') : e.key # n => e \in Range(placedPieces)
            /\ occupiedSquares' = occupiedSquares \cup SquaresOf(n, row, col, o)]_vars

\* placePiece has returned true with a placement off the board, a placement on
\* the day square of the date and two placements sharing a square
C6_Witness ==
    /\ LastCall.op = "placePiece" /\ LastCall.ret = "true"
    /\ Len(placedPieces) = 3
    /\ \E e \in Range(placedPieces) : EntrySquares(e) \ ValidSquares # {}
    /\ \E e \in Range(placedPieces) : findDayPosition(currentDate.dayNumber) \in EntrySquares(e)
    /\ \E i, j \in 1..Len(placedPieces) :
          i # j /\ EntrySquares(placedPieces[i]) \cap EntrySquares(placedPieces[j]) # {}

\* C7, as the handlers and the engine have it: a piece becomes placed only by
\* placePiece; it becomes unplaced only by removePiece of that piece or by
\* resetGameModel, which unplaces every piece; and in no handler run does the
\* placement of a placed piece change without a removePiece of that piece.
C7_LifecycleWithReset ==
    [][\A n \in Range(PieceNames) :
          /\ (~mapHas(placedPieces, n) /\ mapHas(placedPieces', n))
                => CalledFor(calls', "placePiece", n)
          /\ (mapHas(placedPieces, n) /\ ~mapHas(placedPieces', n))
                => (CalledFor(calls', "removePiece", n) \/ Called(calls', "resetGameModel"))
          /\ (mapHas(placedPieces, n) /\ mapHas(placedPieces', n) /\ ~CalledFor(calls', "removePiece", n))
                => mapGet(placedPieces', n) = mapGet(placedPieces, n)]_vars

\* C7 as stated: a piece becomes unplaced only by removePiece
C7_LifecycleOnlyRemove ==
    [][\A n \in Range(PieceNames) :
          /\ (~mapHas(placedPieces, n) /\ mapHas(placedPieces', n))
                => CalledFor(calls', "placePiece", n)
          /\ (mapHas(placedPieces, n) /\ ~mapHas(placedPieces', n))
                => CalledFor(calls', "removePiece", n)
          /\ (mapHas(placedPieces, n) /\ mapHas(placedPieces', n) /\ ~CalledFor(calls', "removePiece", n))
                => mapGet(placedPieces', n) = mapGet(placedPieces, n)]_vars

\* a click has picked up a turned piece while another piece stays placed: the
\* piece is selected with the orientation it had and is no longer placed
C7_Witness ==
    /\ calls[1].op = "click"
    /\ \E i \in 1..Len(calls) :
          /\ calls[i].op = "removePiece" /\ calls[i].ret = "true"
          /\ gameState.selectedPiece = calls[i].args[1]
          /\ ~mapHas(placedPieces, calls[i].args[1])
    /\ gameState.selectedOrientation # 0
    /\ Len(placedPieces) = 1

\* C8: in a handler run every placePiece call comes right after an
\* isValidPlacement call that returned true for exactly the squares being placed
\* and for the occupancy of the model at that moment.
C8_LockIsValidatedFirst ==
    [][\A i \in 1..Len(calls') :
          calls'[i].op = "placePiece" =>
              /\ i > 1
              /\ calls'[i - 1].op = "isValidPlacement"
              /\ calls'[i - 1].ret = "true"
              /\ Range(calls'[i - 1].args[1]) =
                     SquaresOf(calls'[i].args[1], calls'[i].args[2], calls'[i].args[3], calls'[i].args[4])
              /\ calls'[i - 1].args[2] = occupiedSquares]_vars

\* a tap-in-place click has locked a second piece
C8_Witness ==
    /\ calls[1].op = "click"
    /\ handlers.lastInteractionWasTouch
    /\ Called(calls, "placePiece")
    /\ Len(placedPieces) = 2

\* C9, as the handlers have it: a handler that calls placePiece calls
\* checkWinCondition on the model it leaves before it returns; a handler that
\* calls removePiece (click pick-up, Escape) returns without calling it.
C9_WinCheckAfterLockOnly ==
    /\ \A i \in 1..Len(calls) :
          calls[i].op = "placePiece" =>
              \E j \in (i + 1)..Len(calls) :
                  /\ calls[j].op = "checkWinCondition"
                  /\ calls[j].ret = Bool(checkWinCondition(gameModelNow, currentDate))
    /\ \A i \in 1..Len(calls) :
          calls[i].op = "removePiece" => ~Called(calls, "checkWinCondition")

\* C9 as stated: after every placePiece and every removePiece of a handler the
\* same handler calls checkWinCondition.
C9_WinCheckAfterEveryMutation ==
    \A i \in 1..Len(calls) :
        calls[i].op \in {"placePiece", "removePiece"} =>
            \E j \in (i + 1)..Len(calls) : calls[j].op = "checkWinCondition"

\* the long-press timer has locked a piece and checked for the win
C9_Witness ==
    /\ calls[1].op = "longPressTimer"
    /\ Called(calls, "placePiece")
    /\ Called(calls, "checkWinCondition")
    /\ gameState.selectedPiece = null

\* C10: placePiece is atomic: a call either returns having recorded the
\* placement and added its squares, or leaves placedPieces and occupiedSquares
\* as they were.
C10_PlaceIsAtomic ==
    [][LastCall'.op = "placePiece" =>
          \/ /\ LastCall'.ret = "true"
             /\ mapGet(placedPieces', LastCall'.args[1]) =
                    [row |-> LastCall'.args[2], col |-> LastCall'.args[3],
                     orientationIndex |-> LastCall'.args[4]]
             /\ occupiedSquares' = occupiedSquares \cup
                    SquaresOf(LastCall'.args[1], LastCall'.args[2], LastCall'.args[3], LastCall'.args[4])
          \/ /\ LastCall'.ret # "true"
             /\ placedPieces' = placedPieces
             /\ occupiedSquares' = occupiedSquares]_vars

\* the operations of the catalog that look a piece or an orientation up
LookupOps == {"getPiece", "getPieceOrientation", "nextOrientation", "prevOrientation",
              "findFlippedOrientation"}

\* the orientation list of the piece the last catalog call named
ListOfLastCall == pieces[LastCall.args.name].orientations

\* C11: lookup misses are never fatal: every catalog operation called with an
\* unknown piece name, or with an index outside 0..count-1, completes and
\* returns a value instead of raising an error.
C11_LookupMissNeverThrows ==
    LastCall.op \in LookupOps => ~LastCall.ret.threw

\* C12: for each of the eight pieces the orientation list generateOrientations
\* produces has 1, 2, 4 or 8 entries, no two entries with the same sorted
\* coordinates, and every entry has minimum x = 0 and minimum y = 0.
C12_OrientationsUniqueAndNormalized ==
    LastCall.op = "generateOrientations" =>
        LET orientations == LastCall.ret.orientations
        IN  /\ Len(orientations) \in {1, 2, 4, 8}
            /\ \A i, j \in 1..Len(orientations) :
                   i # j => sortCoords(orientations[i]) # sortCoords(orientations[j])
            /\ \A i \in 1..Len(orientations) :
                   /\ MinOf({c[1] : c \in Range(orientations[i])}) = 0
                   /\ MinOf({c[2] : c \in Range(orientations[i])}) = 0

\* generateOrientations has returned four orientations for the base shape of a
\* piece with a symmetry: the other four transforms had been seen
C12_Witness ==
    /\ LastCall.op = "generateOrientations"
    /\ Len(LastCall.ret.orientations) = 4
    /\ LastCall.args.baseCoords = baseShape["U"]

\* C13: rotation closure: rotateCoords applied four times in succession to an
\* orientation of a piece yields the coordinates of that orientation again.
C13_FourRotationsReturn ==
    (calls[1].op = "rotateCoords" /\ Len(calls) = 4) =>
        /\ \A k \in 2..4 : calls[k].args.coords = calls[k - 1].ret.coords
        /\ Range(calls[4].ret.coords) = Range(calls[1].args.coords)

\* four rotations of a mirrored orientation of L: the first three results differ
\* from the orientation
C13_Witness ==
    /\ calls[1].op = "rotateCoords" /\ Len(calls) = 4
    /\ calls[1].args.coords = At(pieces["L"].orientations, 5)
    /\ \A k \in 1..3 : Range(calls[k].ret.coords) # Range(calls[1].args.coords)

\* C14: for a piece with n orientations and all integers i and k (negative i
\* included), getPieceOrientation(piece, i) returns what
\* getPieceOrientation(piece, i + k * n) returns, and that is the entry of the
\* list at index i mod n in 0..n-1.
C14_IndexWrapsModuloCount ==
    (LastCall.op = "getPieceOrientation" /\ LastCall.args.name \in Range(PieceNames)) =>
        LET i == LastCall.args.orientationIndex
            n == Len(ListOfLastCall)
        IN  /\ \A k \in (0 - MaxWrap)..MaxWrap :
                   getPieceOrientation(LastCall.args.name, i + k * n) = LastCall.ret.coords
            /\ LastCall.ret.coords = At(ListOfLastCall, i % n)

\* a negative index that is no multiple of the count: L at -3 is L at 5
C14_Witness ==
    /\ LastCall.op = "getPieceOrientation"
    /\ LastCall.args = [name |-> "L", orientationIndex |-> -3]
    /\ LastCall.ret.coords = At(pieces["L"].orientations, 5)

\* C15: findFlippedOrientation is an involution: for every piece and every index
\* i in 0..count-1, findFlippedOrientation(piece, findFlippedOrientation(piece, i)) = i.
C15_FlipIsInvolution ==
    (/\ LastCall.op = "findFlippedOrientation"
     /\ LastCall.args.name \in Range(PieceNames)
     /\ HasIndex(ListOfLastCall, LastCall.args.currentIndex)) =>
        /\ ~LastCall.ret.threw
        /\ HasIndex(ListOfLastCall, LastCall.ret.index)
        /\ findFlippedOrientation(LastCall.args.name, LastCall.ret.index) = LastCall.args.currentIndex

\* the flip of a rotated orientation of L is another orientation of L
C15_Witness ==
    /\ LastCall.op = "findFlippedOrientation"
    /\ LastCall.args = [name |-> "L", currentIndex |-> 1]
    /\ ~LastCall.ret.threw
    /\ LastCall.ret.index # 1

\* C16: for a piece with n orientations and every integer index i,
\* nextOrientation returns (i + 1) mod n and prevOrientation returns
\* (i - 1) mod n, both in 0..n-1.
C16_StepIsIndexModuloCount ==
    (LastCall.op \in {"nextOrientation", "prevOrientation"} /\ LastCall.args.name \in Range(PieceNames)) =>
        LET i == LastCall.args.currentIndex
            n == Len(ListOfLastCall)
        IN  /\ LastCall.ret.index \in 0..(n - 1)
            /\ LastCall.op = "nextOrientation" => LastCall.ret.index = (i + 1) % n
            /\ LastCall.op = "prevOrientation" => LastCall.ret.index = (i - 1) % n

\* C17: nextOrientation is a 90-degree rotation step: for every piece and every
\* index i in 0..count-1 the orientation at index nextOrientation(piece, i) has
\* the coordinates of rotateCoords applied to the orientation at index i.
C17_NextIsRotationStep ==
    (/\ LastCall.op = "nextOrientation"
     /\ LastCall.args.name \in Range(PieceNames)
     /\ HasIndex(ListOfLastCall, LastCall.args.currentIndex)) =>
        Range(At(ListOfLastCall, LastCall.ret.index)) =
            Range(rotateCoords(At(ListOfLastCall, LastCall.args.currentIndex)))

\* the 43 squares of the calendar: months in rows 0-1, columns 1-6; days in
\* rows 2-4, all eight columns, and in row 5, columns 0-6
MonthCells == (0..1) \X (1..6)

DayCells == ((2..4) \X (0..7)) \cup ({5} \X (0..6))

C19_FindReturnsTheUniqueSquare ==
    /\ LastCall.op = "findMonthPosition" =>
          LET m == LastCall.args.monthIndex
              holders == {pos \in DOMAIN initializeGrid :
                             /\ initializeGrid[pos].type = "month"
                             /\ initializeGrid[pos].monthIndex = m}
          IN  IF m \in 0..11
              THEN holders = {LastCall.ret.position}
              ELSE LastCall.ret.position = nullPosition
    /\ LastCall.op = "findDayPosition" =>
          LET d == LastCall.args.dayNumber
              holders == {pos \in DOMAIN initializeGrid :
                             /\ initializeGrid[pos].type = "day"
                             /\ initializeGrid[pos].dayNumber = d}
          IN  IF d \in 1..31
              THEN holders = {LastCall.ret.position}
              ELSE LastCall.ret.position = nullPosition

\* findDayPosition has found day 31 on the last square of the board
C19_Witness ==
    /\ LastCall.op = "findDayPosition"
    /\ LastCall.args.dayNumber = 31
    /\ LastCall.ret.position = <<5, 6>>

SameDay(d1, d2) == d1.monthIndex = d2.monthIndex /\ d1.dayNumber = d2.dayNumber

\* the placement list and the occupancy list of a model, as saveGameState takes them
SavedLists(m) == [placedPieces |-> entriesArray(m.placedPieces), occupiedSquares |-> m.occupiedSquares]

\* C21: saved state is restored only for its own date: loadGameState(d2) returns
\* null when localStorage holds no item; when it holds the item that
\* saveGameState(model, d1) wrote, it returns the placement list and the occupancy
\* list of that model unchanged if d2 has the month and the day of d1, and null
\* if d2 differs from d1 in the month or in the day.
C21_SavedStateRestoredForItsDateOnly ==
    LastCall.op = "loadGameState" =>
        /\ localStorage = noItem => LastCall.ret.gameData = nullGameData
        /\ localStorage # noItem =>
               \E m \in StorageModels, d1 \in StorageDates :
                   localStorage = saveGameState(m, d1, noItem, FALSE)
        /\ \A m \in StorageModels, d1 \in StorageDates :
               localStorage = saveGameState(m, d1, noItem, FALSE) =>
                   LastCall.ret.gameData = IF SameDay(d1, LastCall.args.currentDate)
                                           THEN SavedLists(m)
                                           ELSE nullGameData

\* a load on 11 February that returns the saved L piece with its row -1
C21_Witness ==
    /\ LastCall.op = "loadGameState"
    /\ LastCall.args.currentDate = Date(1, 11)
    /\ localStorage = saveGameState(gameModelNow, Date(1, 11), noItem, FALSE)
    /\ LastCall.ret.gameData.placedPieces = <<<<"L", [row |-> -1, col |-> 6, orientationIndex |-> 0]>>>>
    /\ LastCall.ret.gameData.occupiedSquares = occupiedSquares
    /\ occupiedSquares # {}

\* C22: auto-save: every run of an input handler (click, long-press timer,
\* keydown) that changes the game model and in which localStorage.setItem does
\* not throw calls saveGameState after the change, so that the item in
\* localStorage then restores, for today, the placements and the occupancy of
\* the model in memory.
C22_EveryMutationIsSaved ==
    [][(/\ calls'[1].op \in {"click", "longPressTimer", "keydown"}
        /\ gameModelNow' # gameModelNow
        /\ ~Called(calls', "console.error"))
       => /\ Called(calls', "saveGameState")
          /\ loadGameState(currentDate', localStorage') = SavedLists(gameModelNow')]_vars

MirrorCells(coords) ==
    LET xs == {c[1] : c \in Range(coords)}
        mirrored == {<<MinOf(xs) + MaxOf(xs) - c[1], c[2]>> : c \in Range(coords)}
        least == MinOf({c[1] : c \in mirrored})
    IN  {<<c[1] - least, c[2]>> : c \in mirrored}

\* C24: for every catalog piece and every index i in 0..count-1 the search of
\* findFlippedOrientation finds a match: the call returns an index in 0..count-1
\* whose orientation has, as a set of squares, the horizontal mirror image of
\* orientation i, so the fallback that returns i for want of a match is never taken.
C24_FlipFindsTheMirrorImage ==
    (/\ LastCall.op = "findFlippedOrientation"
     /\ LastCall.args.name \in Range(PieceNames)
     /\ HasIndex(ListOfLastCall, LastCall.args.currentIndex)) =>
        /\ ~LastCall.ret.threw
        /\ HasIndex(ListOfLastCall, LastCall.ret.index)
        /\ Range(At(ListOfLastCall, LastCall.ret.index))
               = MirrorCells(At(ListOfLastCall, LastCall.args.currentIndex))
        /\ \E i \in 0..(Len(ListOfLastCall) - 1) :
               sortCoords(At(ListOfLastCall, i))
                   = sortCoords(flipCoords(At(ListOfLastCall, LastCall.args.currentIndex)))

\* the mirror image of the last orientation of N is found at another index
C24_Witness ==
    /\ LastCall.op = "findFlippedOrientation"
    /\ LastCall.args = [name |-> "N", currentIndex |-> 7]
    /\ ~LastCall.ret.threw
    /\ LastCall.ret.index # 7
    /\ Range(At(ListOfLastCall, LastCall.ret.index)) = MirrorCells(At(ListOfLastCall, 7))

\* C25: removePiece called for a piece that is not placed returns false and
\* leaves placedPieces and occupiedSquares exactly as they were, stale squares
\* included (nothing is recomputed); called for a placed piece it returns true,
\* the piece is no longer in placedPieces, every other placement is as it was
\* and in the same order, and none is added.
C25_RemoveOfUnplacedChangesNothing ==
    [][LastCall'.op = "removePiece" =>
          IF \E e \in Range(placedPieces) : e.key = LastCall'.args[1]
          THEN /\ LastCall'.ret = "true"
               /\ \A e \in Range(placedPieces') : e.key # LastCall'.args[1]
               /\ placedPieces' = SelectSeq(placedPieces, LAMBDA e : e.key # LastCall'.args[1])
          ELSE /\ LastCall'.ret = "false"
               /\ placedPieces' = placedPieces
               /\ occupiedSquares' = occupiedSquares]_vars

\* removePiece of the piece that is never placed has returned false on a board
\* whose occupancy holds squares of an overwritten placement: they are still there
C25_Witness ==
    /\ LastCall.op = "removePiece"
    /\ LastCall.args[1] = PlayOrder[NumPlay + 1]
    /\ LastCall.ret = "false"
    /\ placedPieces # <<>>
    /\ occupiedSquares # UnionOfPlacements

\* the number of squares of the placed pieces, counted piece by piece
RECURSIVE SumOfCellCounts(_, _)
SumOfCellCounts(entries, i) ==
    IF i > Len(entries) THEN 0
    ELSE Len(At(getPiece(entries[i].key).orientations, entries[i].value.orientationIndex))
         + SumOfCellCounts(entries, i + 1)

\* C26: when placePiece is called only for a piece that is not placed and only
\* right after isValidPlacement accepted its squares against the current
\* occupancy (removePiece and resetGameModel at any time), in every reachable
\* state no two placed pieces share a square, every occupied square is one of
\* the 43 squares of the board, and occupiedSquares has as many squares as the
\* placed pieces have together.
C26_DisciplinedBoardIsDisjoint ==
    /\ \A i, j \in 1..Len(placedPieces) :
           i # j => EntrySquares(placedPieces[i]) \cap EntrySquares(placedPieces[j]) = {}
    /\ occupiedSquares \subseteq (MonthCells \cup DayCells)
    /\ Cardinality(MonthCells \cup DayCells) = 43
    /\ Cardinality(occupiedSquares) = SumOfCellCounts(placedPieces, 1)

\* the three played pieces are on the board of an empty start, the last of them
\* just placed after its validation
C26_Witness ==
    /\ Len(calls) = 2
    /\ calls[1].op = "isValidPlacement" /\ calls[1].ret = "true"
    /\ calls[2].op = "placePiece"
    /\ Len(placedPieces) = NumPlay
    /\ Cardinality(occupiedSquares) = SumOfCellCounts(placedPieces, 1)
    /\ Cardinality(occupiedSquares) >= 15

\* C27: under the same discipline, for every date with monthIndex 0..11 and
\* dayNumber 1..31: whenever checkWinCondition is true for the date, all eight
\* pieces are placed, occupiedSquares is exactly the 41 squares to cover, and
\* no placed piece has a square on the date's month square or day square.
C27_DisciplinedWinIsExactCover ==
    \A d \in AllDates :
        checkWinCondition(gameModelNow, d) =>
            /\ {e.key : e \in Range(placedPieces)} = Range(PieceNames)
            /\ Len(placedPieces) = 8
            /\ occupiedSquares = RequiredSquares(d)
            /\ Cardinality(occupiedSquares) = 41
            /\ \A e \in Range(placedPieces) :
                   /\ findMonthPosition(d.monthIndex) \notin EntrySquares(e)
                   /\ findDayPosition(d.dayNumber) \notin EntrySquares(e)

\* the last of the eight pieces has just been validated and placed, and the
\* board is solved for the session's date
C27_Witness ==
    /\ Len(calls) = 2
    /\ calls[1].op = "isValidPlacement" /\ calls[1].ret = "true"
    /\ calls[2].op = "placePiece"
    /\ checkWinCondition(gameModelNow, currentDate)
    /\ Len(placedPieces) = 8

\* C28: place-then-remove round trip: from a state in which occupiedSquares is
\* the union of the placements' squares and piece p has no placement,
\* placePiece(p, row, col, orientation) followed by removePiece(p) returns true
\* twice and leaves placedPieces (entries and order) and occupiedSquares exactly
\* as they were before the two calls, also when the placement overlaps other
\* pieces or lies off the board.
C28_PlaceThenRemoveRestores ==
    [][(/\ Len(calls') = 2
        /\ calls'[1].op = "placePiece"
        /\ calls'[2].op = "removePiece"
        /\ calls'[2].args[1] = calls'[1].args[1]
        /\ occupiedSquares = UnionOfPlacements
        /\ \A e \in Range(placedPieces) : e.key # calls'[1].args[1])
       => /\ calls'[1].ret = "true"
          /\ calls'[2].ret = "true"
          /\ placedPieces' = placedPieces
          /\ occupiedSquares' = occupiedSquares]_vars

\* L was put down on squares of the RECTANGLE and of N and taken up again: the
\* two other pieces and their squares are as before
C28_Witness ==
    /\ Len(calls) = 2
    /\ calls[1].op = "placePiece" /\ calls[1].args[1] = "L"
    /\ calls[2].op = "removePiece" /\ calls[2].ret = "true"
    /\ Len(placedPieces) = 2
    /\ \A e \in Range(placedPieces) : e.key # "L"
    /\ occupiedSquares = UnionOfPlacements
    /\ SquaresOf("L", calls[1].args[2], calls[1].args[3], calls[1].args[4]) \cap occupiedSquares # {}

(***************************************************************************)
(* C29: the long-press timer armed by a touchstart locks a piece only      *)
(* while that touch is still going on (no touchend has been handled since  *)
(* the touchstart and the finger has not moved more than                   *)
(* LONG_PRESS_MOVE_THRESHOLD), only the piece that was selected at that    *)
(* touchstart, and at most once: a run of the timer callback that calls    *)
(* placePiece happens with the touch not over, places the piece of the     *)
(* touchstart, and leaves no timer pending.                                *)
(***************************************************************************)
C29_LongPressLocksOnlyDuringItsTouch ==
    [][(calls'[1].op = "longPressTimer" /\ Called(calls', "placePiece"))
       => /\ ~timerTouch.over
          /\ CalledFor(calls', "placePiece", timerTouch.piece)
          /\ handlers'.longPressTimeout = null]_vars

(***************************************************************************)
(* C30: the click locking protocol.  A click with a piece selected, when   *)
(* the last interaction was by mouse and the position is valid, calls      *)
(* placePiece at once with the selected piece, the adjusted anchor and the *)
(* selected orientation.  When the last interaction was by touch, a tap at *)
(* a valid position whose adjusted anchor is not the recorded preview      *)
(* anchor records it and leaves the model as it was, and a tap that calls  *)
(* placePiece has the recorded preview anchor as its adjusted anchor.  A   *)
(* tap at an invalid position leaves the model as it was.  After every     *)
(* lock (a handler that calls placePiece) and every pick-up the preview    *)
(* anchor is null.                                                         *)
(***************************************************************************)
TapAt(p) ==
    LET canvas == getCanvasCoords(CanvasRect, p[1], p[2])
        at == placementAt(gameState.selectedPiece, gameState.selectedOrientation,
                          canvas[1], canvas[2], RenderConfig)
    IN  [anchor |-> <<at.adjustedRow, at.adjustedCol>>,
         valid |-> isValidPlacement(at.gridCoords, occupiedSquares)]

C30_ClickLockingProtocol ==
    [][/\ (calls'[1].op = "click" /\ gameState.selectedPiece # null) =>
              LET tap == TapAt(calls'[1].args)
                  byTouch == handlers.lastInteractionWasTouch
                  locks == Called(calls', "placePiece")
              IN  /\ (tap.valid /\ ~byTouch) =>
                         \E j \in 1..Len(calls') :
                             /\ calls'[j].op = "placePiece"
                             /\ calls'[j].args = <<gameState.selectedPiece, tap.anchor[1], tap.anchor[2],
                                                   gameState.selectedOrientation>>
                  /\ (tap.valid /\ byTouch /\ handlers.preview # tap.anchor) =>
                         /\ ~locks
                         /\ gameModelNow' = gameModelNow
                         /\ handlers'.preview = tap.anchor
                  /\ (locks /\ byTouch) => handlers.preview = tap.anchor
                  /\ ~tap.valid => (~locks /\ gameModelNow' = gameModelNow)
       /\ (calls'[1].op \in {"click", "longPressTimer"} /\ Called(calls', "placePiece"))
              => handlers'.preview = nullPosition
       /\ (calls'[1].op = "click" /\ Called(calls', "removePiece"))
              => handlers'.preview = nullPosition]_vars

=============================================================================
